---- MODULE Spec2Model ----
(***************************************************************************)
(* A model of the Auto Cataloger add-on                                    *)
(* (src/projects/auto-cataloger/smh_asset_bulk_manager.py): the catalog    *)
(* store (_read_catalog_file, _write_catalog_file_with_backup,             *)
(* _ensure_catalogs), the classification planner (_build_assignment_plan)  *)
(* and the Preview / Apply / Restore operators.                            *)
(*                                                                         *)
(* Text is modelled character by character: a Python str is a sequence of  *)
(* one-character strings, a file is either absent or the sequence of the   *)
(* characters it holds, line feeds included.                               *)
(***************************************************************************)
EXTENDS Integers, Sequences, FiniteSets, TLC

\* ------------------------------------------------------------------ text

\* The printable ASCII characters in code-point order, 32 (space) to 126 (~):
\* Python compares and sorts str by code point. (Position 65, the grave accent,
\* holds a second apostrophe: the character is not used and not writable here.)
AsciiTable ==
  << " ", "!", "\"", "#", "$", "%", "&", "'", "(", ")", "*", "+", ",", "-", ".", "/",
     "0", "1", "2", "3", "4", "5", "6", "7", "8", "9", ":", ";", "<", "=", ">", "?",
     "@", "A", "B", "C", "D", "E", "F", "G", "H", "I", "J", "K", "L", "M", "N", "O",
     "P", "Q", "R", "S", "T", "U", "V", "W", "X", "Y", "Z", "[", "\\", "]", "^", "_",
     "'", "a", "b", "c", "d", "e", "f", "g", "h", "i", "j", "k", "l", "m", "n", "o",
     "p", "q", "r", "s", "t", "u", "v", "w", "x", "y", "z", "{", "|", "}", "~" >>

\* The code point of a character; the control characters below the space all
\* sort before it, and only their order relative to the printable ones is used.
Code(c) ==
  IF c \in {"\n", "\t", "\r"} THEN 10
  ELSE 31 + (CHOOSE i \in 1..Len(AsciiTable) : AsciiTable[i] = c)

UpperChars == {AsciiTable[i] : i \in 34..59}
LowerChars == {AsciiTable[i] : i \in 66..91}
DigitChars == {AsciiTable[i] : i \in 17..26}

IsCased(c) == c \in UpperChars \/ c \in LowerChars
ToUpper(c) == IF c \in LowerChars THEN AsciiTable[Code(c) - 31 - 32] ELSE c
ToLower(c) == IF c \in UpperChars THEN AsciiTable[Code(c) - 31 + 32] ELSE c

\* the characters str.strip() removes and \s matches, among those that occur
Whitespace == {" ", "\t", "\n", "\r"}

\* a < b for Python str
RECURSIVE StrLess(_, _)
StrLess(a, b) ==
  IF b = << >> THEN FALSE
  ELSE IF a = << >> THEN TRUE
  ELSE IF Head(a) = Head(b) THEN StrLess(Tail(a), Tail(b))
  ELSE Code(Head(a)) < Code(Head(b))

\* sorted(S) for a set of str: the i-th element has i - 1 elements below it
Sorted(S) ==
  [i \in 1..Cardinality(S) |->
     CHOOSE x \in S : Cardinality({y \in S : StrLess(y, x)}) = i - 1]

\* str.lstrip / str.rstrip / str.strip of the characters in cs
RECURSIVE LStripSet(_, _)
LStripSet(s, cs) ==
  IF s # << >> /\ Head(s) \in cs THEN LStripSet(Tail(s), cs) ELSE s

RECURSIVE RStripSet(_, _)
RStripSet(s, cs) ==
  IF s # << >> /\ s[Len(s)] \in cs THEN RStripSet(SubSeq(s, 1, Len(s) - 1), cs) ELSE s

StripSet(s, cs) == RStripSet(LStripSet(s, cs), cs)

\* str.strip() and str.rstrip() with no argument
Strip(s) == StripSet(s, Whitespace)
RStrip(s) == RStripSet(s, Whitespace)

\* str.replace(a, b) for single characters
ReplaceChar(s, a, b) == [i \in 1..Len(s) |-> IF s[i] = a THEN b ELSE s[i]]

\* re.sub of every run of characters of cs by the one character c: kept are
\* the characters outside cs and the first character of each run
CollapseKept(s, cs, c, kept) ==
  [j \in 1..Len(kept) |-> IF s[kept[j]] \in cs THEN c ELSE s[kept[j]]]

CollapseRuns(s, cs, c) ==
  CollapseKept(s, cs, c,
               SelectSeq([i \in 1..Len(s) |-> i],
                         LAMBDA i : ~(s[i] \in cs) \/ i = 1 \/ ~(s[i - 1] \in cs)))

StartsWith(s, p) == Len(s) >= Len(p) /\ SubSeq(s, 1, Len(p)) = p

Last(s) == s[Len(s)]

\* the elements of a set of numbers in ascending order
Ascending(P) ==
  [j \in 1..Cardinality(P) |-> CHOOSE k \in P : Cardinality({q \in P : q < k}) = j - 1]

\* the pieces of s between the cuts, which are indices of s in ascending order
PiecesAt(s, cuts) ==
  [j \in 1..(Len(cuts) + 1) |->
     SubSeq(s, IF j = 1 THEN 1 ELSE cuts[j - 1] + 1,
               IF j > Len(cuts) THEN Len(s) ELSE cuts[j] - 1)]

\* the first maxsplit places of c, all of them for maxsplit = -1
FirstCuts(places, maxsplit) ==
  IF maxsplit < 0 \/ maxsplit >= Len(places) THEN places ELSE SubSeq(places, 1, maxsplit)

\* str.split(c, maxsplit); maxsplit = -1 splits at every c
Split(s, c, maxsplit) ==
  PiecesAt(s, FirstCuts(Ascending({k \in 1..Len(s) : s[k] = c}), maxsplit))

\* sep.join(parts)
RECURSIVE Join(_, _)
Join(parts, sep) ==
  IF parts = << >> THEN << >>
  ELSE IF Len(parts) = 1 THEN parts[1]
  ELSE parts[1] \o sep \o Join(Tail(parts), sep)

RECURSIVE Concat(_)
Concat(seqs) == IF seqs = << >> THEN << >> ELSE Head(seqs) \o Concat(Tail(seqs))

DropLastIfEmpty(parts) ==
  IF Last(parts) = << >> THEN SubSeq(parts, 1, Len(parts) - 1) ELSE parts

\* the lines a text file yields when iterated: each ends at a line feed, and
\* a last line without one is yielded as well
FileLines(data) == DropLastIfEmpty(Split(data, "\n", -1))

\* ------------------------------------------------------- catalog store

CATALOG_FILE_NAME ==
  << "b", "l", "e", "n", "d", "e", "r", "_", "a", "s", "s", "e", "t", "s", ".", "c",
     "a", "t", "s", ".", "t", "x", "t" >>

VersionPrefix == << "V", "E", "R", "S", "I", "O", "N", " " >>
VersionOne == << "V", "E", "R", "S", "I", "O", "N", " ", "1" >>
Uncategorized == << "U", "n", "c", "a", "t", "e", "g", "o", "r", "i", "z", "e", "d" >>

DEFAULT_HEADER_LINES ==
  << << "#", " ", "T", "h", "i", "s", " ", "i", "s", " ", "a", "n", " ", "A", "s", "s",
        "e", "t", " ", "C", "a", "t", "a", "l", "o", "g", " ", "D", "e", "f", "i", "n",
        "i", "t", "i", "o", "n", " ", "f", "i", "l", "e", " ", "f", "o", "r", " ", "B",
        "l", "e", "n", "d", "e", "r", "." >>,
     << "#", " ", "M", "a", "n", "a", "g", "e", "d", " ", "b", "y", " ", "A", "u", "t",
        "o", " ", "C", "a", "t", "a", "l", "o", "g", "e", "r", "." >>,
     VersionOne >>

\* A file: absent, or the characters it holds.
NoFile == [exists |-> FALSE, data |-> << >>]
FileOf(text) == [exists |-> TRUE, data |-> text]

\* The empty dict
EmptyMap == [p \in {} |-> << >>]

\* d[k] = v for a dict held as a function
Put(d, k, v) == (k :> v) @@ d

NormalizePathFragment(value) ==
  StripSet(CollapseRuns(Strip(ReplaceChar(value, "\\", "/")), {"/"}, "/"), {"/"})

\* str.title(): a cased character is upper-cased when the one before it is not
\* cased, lower-cased otherwise
Title(s) ==
  [i \in 1..Len(s) |->
     IF i > 1 /\ IsCased(s[i - 1]) THEN ToLower(s[i]) ELSE ToUpper(s[i])]

TitleOrUncategorized(leaf) == IF leaf = << >> THEN Uncategorized ELSE Title(leaf)

PrettyCatalogLeaf(value) ==
  TitleOrUncategorized(
    Strip(CollapseRuns(
      ReplaceChar(ReplaceChar(Last(Split(value, "/", -1)), "_", " "), "-", " "),
      Whitespace, " ")))

IsHeaderLine(stripped) ==
  (stripped # << >> /\ stripped[1] = "#") \/ StartsWith(stripped, VersionPrefix)

\* A loop body that takes a line with one colon as an entry with no name.
ReadEntryFromTwo(path_to_entry, parts) ==
  IF Len(parts) < 2 THEN path_to_entry
  ELSE Put(path_to_entry, parts[2],
           [uuid |-> parts[1], name |-> IF Len(parts) = 3 THEN parts[3] ELSE << >>])

\* The body of the loop of _read_catalog_file for one stripped line that is
\* neither blank nor a header: the dict afterwards.
ReadEntry(path_to_entry, parts) ==
  IF Len(parts) # 3 THEN path_to_entry
  ELSE Put(path_to_entry, parts[2], [uuid |-> parts[1], name |-> parts[3]])

\* The loop of _read_catalog_file over the lines from the i-th on; ReadLine is
\* its body for the stripped i-th line.
RECURSIVE ReadLines(_, _, _, _)
RECURSIVE ReadLine(_, _, _, _, _)
ReadLine(lines, i, headers, path_to_entry, stripped) ==
  IF stripped = << >> THEN ReadLines(lines, i + 1, headers, path_to_entry)
  ELSE IF IsHeaderLine(stripped)
    THEN ReadLines(lines, i + 1, Append(headers, stripped), path_to_entry)
  ELSE ReadLines(lines, i + 1, headers, ReadEntry(path_to_entry, Split(stripped, ":", 2)))

ReadLines(lines, i, headers, path_to_entry) ==
  IF i > Len(lines) THEN [headers |-> headers, entries |-> path_to_entry]
  ELSE ReadLine(lines, i, headers, path_to_entry, Strip(lines[i]))

HasVersionLine(headers) == \E i \in 1..Len(headers) : StartsWith(headers[i], VersionPrefix)

\* The end of _read_catalog_file: the default header for none, VERSION 1
\* appended when no header line gives a version.
WithDefaultHeader(headers) == IF headers = << >> THEN DEFAULT_HEADER_LINES ELSE headers
\* An end of the reader that appends VERSION 1 whatever the header holds.
AlwaysVersionLine(headers) == Append(headers, VersionOne)

\* An end of the reader that leaves the header without a version line.
NeverVersionLine(headers) == headers

WithVersionLine(headers) ==
  IF HasVersionLine(headers) THEN headers ELSE Append(headers, VersionOne)

FinishRead(r) ==
  [headers |-> WithVersionLine(WithDefaultHeader(r.headers)), entries |-> r.entries]

ReadCatalogFile(file) ==
  IF ~file.exists THEN [headers |-> DEFAULT_HEADER_LINES, entries |-> EmptyMap]
  ELSE FinishRead(ReadLines(FileLines(file.data), 1, << >>, EmptyMap))

EntryLine(catalog_path, entry) == entry.uuid \o <<":">> \o catalog_path \o <<":">> \o entry.name

\* the entry lines of the file, for the keys in the order given
EntryLines(keys, path_to_entry) ==
  [i \in 1..Len(keys) |-> EntryLine(keys[i], path_to_entry[keys[i]])]

\* The text _write_catalog_file_with_backup writes.
CatalogText(headers, path_to_entry) ==
  Join([i \in 1..Len(headers) |-> RStrip(headers[i])]
         \o EntryLines(Sorted(DOMAIN path_to_entry), path_to_entry),
       <<"\n">>) \o <<"\n">>

\* A writer that copies the file to the .bak sibling after it has written it.
WriteThenBackup(dir, headers, path_to_entry) ==
  [cat |-> FileOf(CatalogText(headers, path_to_entry)),
   bak |-> FileOf(CatalogText(headers, path_to_entry))]

\* The catalog file and its .bak sibling after _write_catalog_file_with_backup.
WriteCatalogFileWithBackup(dir, headers, path_to_entry) ==
  [cat |-> FileOf(CatalogText(headers, path_to_entry)),
   bak |-> IF dir.cat.exists THEN dir.cat ELSE dir.bak]

\* str(uuid.uuid4()): the n-th identifier drawn. Identifiers are hexadecimal
\* digits and dashes, and each one drawn is new.
Uuid4(n) == << "f", AsciiTable[17 + n] >>

\* The loop of _ensure_catalogs over the sorted requested paths from the i-th
\* on, n identifiers drawn before; EnsureOne is its body for the normalized path.
RECURSIVE EnsureLoop(_, _, _, _, _)
RECURSIVE EnsureOne(_, _, _, _, _, _)
EnsureOne(paths, i, path_to_entry, created, n, norm) ==
  IF norm = << >> \/ norm \in DOMAIN path_to_entry
    THEN EnsureLoop(paths, i + 1, path_to_entry, created, n)
  ELSE EnsureLoop(paths, i + 1,
                  Put(path_to_entry, norm,
                      [uuid |-> Uuid4(n + created + 1), name |-> PrettyCatalogLeaf(norm)]),
                  created + 1, n)

EnsureLoop(paths, i, path_to_entry, created, n) ==
  IF i > Len(paths) THEN [entries |-> path_to_entry, created |-> created]
  ELSE EnsureOne(paths, i, path_to_entry, created, n, NormalizePathFragment(paths[i]))

\* An end of _ensure_catalogs that writes whether or not something was created.
EnsureWriteAlways(dir, headers, e) ==
  [dir |-> WriteCatalogFileWithBackup(dir, headers, e.entries),
   uuid_map |-> [p \in DOMAIN e.entries |-> e.entries[p].uuid],
   created |-> e.created,
   wrote |-> TRUE,
   headers |-> headers,
   entries |-> e.entries]

\* The end of _ensure_catalogs: the write when something was created, and the
\* returned mapping and count (with them, whether it wrote and what it held).
EnsureWrite(dir, headers, e) ==
  [dir |-> IF e.created > 0 THEN WriteCatalogFileWithBackup(dir, headers, e.entries) ELSE dir,
   uuid_map |-> [p \in DOMAIN e.entries |-> e.entries[p].uuid],
   created |-> e.created,
   wrote |-> e.created > 0,
   headers |-> headers,
   entries |-> e.entries]

EnsureMerge(dir, r, catalog_paths, n) ==
  EnsureWrite(dir, r.headers, EnsureLoop(Sorted(catalog_paths), 1, r.entries, 0, n))

\* _ensure_catalogs on a library root whose two files are dir.cat and dir.bak:
\* the files afterwards, the returned mapping and the created count.
EnsureCatalogs(dir, catalog_paths, n) ==
  EnsureMerge(dir, ReadCatalogFile(dir.cat), catalog_paths, n)

\* ------------------------------------------------------------ host paths

\* The host is a POSIX one: os.path is posixpath.
Slash == <<"/">>
DotDot == <<".", ".">>

\* os.getcwd()
Cwd == << "/", "w" >>

\* the path components that are neither empty nor "."
Components(path) ==
  SelectSeq(Split(path, "/", -1), LAMBDA c : c # << >> /\ c # <<".">>)

\* The loop of posixpath.normpath over the components from the i-th on.
RECURSIVE NormComps(_, _, _, _)
NormComps(comps, i, new_comps, initial_slashes) ==
  IF i > Len(comps) THEN new_comps
  ELSE IF comps[i] # DotDot
          \/ (initial_slashes = 0 /\ new_comps = << >>)
          \/ (new_comps # << >> /\ Last(new_comps) = DotDot)
    THEN NormComps(comps, i + 1, Append(new_comps, comps[i]), initial_slashes)
  ELSE IF new_comps # << >>
    THEN NormComps(comps, i + 1, SubSeq(new_comps, 1, Len(new_comps) - 1), initial_slashes)
  ELSE NormComps(comps, i + 1, new_comps, initial_slashes)

\* the leading slashes posixpath.normpath keeps: two for exactly two, else one
InitialSlashes(path) ==
  IF ~StartsWith(path, Slash) THEN 0
  ELSE IF StartsWith(path, <<"/", "/">>) /\ ~StartsWith(path, <<"/", "/", "/">>) THEN 2
  ELSE 1

DotIfEmpty(path) == IF path = << >> THEN <<".">> ELSE path

NormpathWith(path, initial_slashes) ==
  DotIfEmpty([i \in 1..initial_slashes |-> "/"]
               \o Join(NormComps(Components(path), 1, << >>, initial_slashes), Slash))

OsNormpath(path) == NormpathWith(path, InitialSlashes(path))

OsAbspath(path) ==
  IF StartsWith(path, Slash) THEN OsNormpath(path)
  ELSE OsNormpath(Cwd \o Slash \o path)

\* the index of the last c in s, 0 when there is none
RECURSIVE RFind(_, _, _)
RFind(s, c, i) == IF i = 0 THEN 0 ELSE IF s[i] = c THEN i ELSE RFind(s, c, i - 1)

\* the head of posixpath.split without its trailing slashes, unless it is all slashes
DirnameOfHead(head, stripped) == IF head # << >> /\ stripped # << >> THEN stripped ELSE head

OsDirnameHead(head) == DirnameOfHead(head, RStripSet(head, {"/"}))

OsDirname(path) == OsDirnameHead(SubSeq(path, 1, RFind(path, "/", Len(path))))

\* the length of the longest common prefix of two component lists
RECURSIVE CommonLen(_, _)
CommonLen(a, b) ==
  IF a = << >> \/ b = << >> \/ Head(a) # Head(b) THEN 0 ELSE 1 + CommonLen(Tail(a), Tail(b))

RelpathFrom(start_list, path_list, i) ==
  DotIfEmpty(Join([k \in 1..(Len(start_list) - i) |-> DotDot]
                    \o SubSeq(path_list, i + 1, Len(path_list)),
                  Slash))

RelpathOf(start_list, path_list) ==
  RelpathFrom(start_list, path_list, CommonLen(start_list, path_list))

OsRelpath(path, start) ==
  RelpathOf(Components(OsAbspath(start)), Components(OsAbspath(path)))

\* ------------------------------------------------ preferences and host

MANUAL_LIBRARY_KEY == << "_", "_", "M", "A", "N", "U", "A", "L", "_", "_" >>
REGISTERED_LIBRARY_PREFIX == << "L", "I", "B", "_" >>

NAME_PREFIX == << "N", "A", "M", "E", "_", "P", "R", "E", "F", "I", "X" >>
RELATIVE_FOLDER ==
  << "R", "E", "L", "A", "T", "I", "V", "E", "_", "F", "O", "L", "D", "E", "R" >>
UNDERSCORE == << "U", "N", "D", "E", "R", "S", "C", "O", "R", "E" >>
DASH == << "D", "A", "S", "H" >>
SPACE == << "S", "P", "A", "C", "E" >>
ALL == << "A", "L", "L" >>
MATERIALS == << "M", "A", "T", "E", "R", "I", "A", "L", "S" >>
NODE_GROUPS == << "N", "O", "D", "E", "_", "G", "R", "O", "U", "P", "S" >>
OBJECTS_COLLECTIONS ==
  << "O", "B", "J", "E", "C", "T", "S", "_", "C", "O", "L", "L", "E", "C", "T", "I", "O",
     "N", "S" >>

\* the type segments of _iter_target_datablocks
Materials == << "M", "a", "t", "e", "r", "i", "a", "l", "s" >>
Node_Groups == << "N", "o", "d", "e", "_", "G", "r", "o", "u", "p", "s" >>
Objects == << "O", "b", "j", "e", "c", "t", "s" >>
Collections == << "C", "o", "l", "l", "e", "c", "t", "i", "o", "n", "s" >>

\* str(bool(x))
StrBool(b) == IF b THEN << "T", "r", "u", "e" >> ELSE << "F", "a", "l", "s", "e" >>

\* The asset libraries registered in the host's preferences: one, at /L.
LibraryPath == << "/", "L" >>
AssetLibraries == << [path |-> LibraryPath] >>

\* hashlib.sha1(abs_path).hexdigest()[:12].upper(), for the paths that occur
Sha1Hex12(abs_path) ==
  CASE abs_path = LibraryPath ->
         << "3", "5", "9", "D", "1", "E", "F", "D", "6", "D", "4", "C" >>

LibraryItemIdForPath(abs_path) == REGISTERED_LIBRARY_PREFIX \o Sha1Hex12(abs_path)

\* bpy.data.filepath of a saved project; the empty string when it is not saved.
\* The project is kept below the registered library, in a folder whose name
\* begins with two dots.
BlendFile == << "/", "L", "/", ".", ".", "p", "/", "s", ".", "b", "l", "e", "n", "d" >>

\* the defaults of AUTO_CATALOGER_preferences
DefaultPrefs ==
  [asset_library_name |-> MANUAL_LIBRARY_KEY,
   asset_library_root_folder |-> << >>,
   classification_mode |-> NAME_PREFIX,
   prefix_delimiter |-> UNDERSCORE,
   catalog_root_prefix |-> << "M", "y", "L", "i", "b", "/" >>,
   target_type |-> ALL,
   auto_mark_missing_as_assets |-> FALSE]

\* the defaults of AUTO_CATALOGER_runtime
DefaultRuntime ==
  [preview_items |-> << >>,
   preview_total |-> 0,
   preview_catalog_count |-> 0,
   preview_skipped_linked |-> 0,
   preview_skipped_external |-> 0,
   preview_ready |-> FALSE,
   preview_signature |-> << >>,
   last_root |-> << >>,
   last_root_source |-> << >>]

\* bpy.path.abspath: a path that starts with // is relative to the project file
BpyAbspath(path, filepath) ==
  IF StartsWith(path, <<"/", "/">>)
    THEN OsDirname(filepath) \o Slash \o SubSeq(path, 3, Len(path))
  ELSE path

\* the candidate of _resolve_registered_library_root for the i-th library
LibraryCandidate(i, filepath) == OsAbspath(Strip(BpyAbspath(AssetLibraries[i].path, filepath)))

FirstOrNone(hits) == IF hits = << >> THEN << >> ELSE hits[1]

\* _resolve_registered_library_root: the first matching library path, "" for None
RegisteredLibraryRoot(prefs, filepath) ==
  IF prefs.asset_library_name = MANUAL_LIBRARY_KEY THEN << >>
  ELSE FirstOrNone(SelectSeq([i \in 1..Len(AssetLibraries) |-> LibraryCandidate(i, filepath)],
                             LAMBDA c : LibraryItemIdForPath(c) = prefs.asset_library_name))

\* _resolve_asset_library_root once the registered and the manual root are
\* known: the root ("" for None) and where it comes from
ResolveFrom(registered, manual, filepath) ==
  IF registered # << >> THEN [root |-> registered, source |-> "REGISTERED"]
  ELSE IF manual # << >> THEN [root |-> OsAbspath(manual), source |-> "MANUAL"]
  ELSE IF filepath # << >>
    THEN [root |-> OsDirname(OsAbspath(filepath)), source |-> "BLEND"]
  ELSE [root |-> << >>, source |-> "NONE"]

ResolveAssetLibraryRoot(prefs, filepath) ==
  ResolveFrom(RegisteredLibraryRoot(prefs, filepath),
              Strip(BpyAbspath(prefs.asset_library_root_folder, filepath)),
              filepath)

\* ---------------------------------------------------------------- planner

DelimiterToken(delimiter_enum) ==
  CASE delimiter_enum = UNDERSCORE -> "_"
    [] delimiter_enum = DASH -> "-"
    [] delimiter_enum = SPACE -> " "

\* the characters _safe_segment keeps
SafeChars == UpperChars \cup LowerChars \cup DigitChars \cup {".", "_", "-"}

UncategorizedIfEmpty(text) == IF text = << >> THEN Uncategorized ELSE text

ReplaceUnsafe(text) == [i \in 1..Len(text) |-> IF text[i] \in SafeChars THEN text[i] ELSE "_"]

\* A sanitizer that removes the characters it does not keep.
SafeSegmentRemoving(value) ==
  UncategorizedIfEmpty(
    StripSet(CollapseRuns(SelectSeq(CollapseRuns(Strip(value), Whitespace, "_"),
                                    LAMBDA c : c \in SafeChars),
                          {"_"}, "_"),
             {"_"}))

SafeSegment(value) ==
  UncategorizedIfEmpty(
    StripSet(CollapseRuns(ReplaceUnsafe(CollapseRuns(Strip(value), Whitespace, "_")),
                          {"_"}, "_"),
             {"_"}))

\* str.split() with no argument: the runs of non-whitespace characters
SplitWhitespace(s) ==
  SelectSeq(Split(CollapseRuns(s, Whitespace, " "), " ", -1), LAMBDA w : w # << >>)

FirstWordOr(words, name) == IF words # << >> THEN words[1] ELSE name

PrefixFromName(name, delimiter_enum) ==
  IF DelimiterToken(delimiter_enum) = " "
    THEN SafeSegment(FirstWordOr(SplitWhitespace(name), name))
  ELSE SafeSegment(Split(name, DelimiterToken(delimiter_enum), 1)[1])

ComposeNormalized(prefix, tail_norm) ==
  IF prefix # << >> /\ tail_norm # << >> THEN prefix \o Slash \o tail_norm
  ELSE IF prefix # << >> THEN prefix
  ELSE IF tail_norm # << >> THEN tail_norm
  ELSE Uncategorized

ComposeCatalogPath(root_prefix, tail) ==
  ComposeNormalized(NormalizePathFragment(root_prefix), NormalizePathFragment(tail))

\* The data-blocks the host can hold, in the order bpy.data yields them within
\* each collection; library is TRUE for a linked block, source_file is the first
\* non-empty library file _source_file_for_datablock finds ("" for none).
DatablockPool ==
  << [kind |-> Materials, name |-> << "a", "_", "x" >>, library |-> FALSE, source_file |-> << >>],
     [kind |-> Materials, name |-> << "c", "_", "z" >>, library |-> TRUE,
      source_file |-> << "/", "q", "/", "l", ".", "b", "l", "e", "n", "d" >>],
     [kind |-> Objects, name |-> << "a", "_", "x" >>, library |-> FALSE,
      source_file |-> << "/", "q", "/", "l", ".", "b", "l", "e", "n", "d" >>] >>

\* the name a block of the pool takes when the user renames it
OtherName == << "b", " ", "x" >>

Slots == 1..Len(DatablockPool)

\* asset_data.catalog_id of a block marked as an asset and not yet assigned
NoCatalogId == << >>

\* The buckets of _iter_target_datablocks for a target type.
Buckets(target_type) ==
  CASE target_type = ALL -> << Materials, Node_Groups, Objects, Collections >>
    [] target_type = MATERIALS -> << Materials >>
    [] target_type = NODE_GROUPS -> << Node_Groups >>
    [] target_type = OBJECTS_COLLECTIONS -> << Objects, Collections >>
    [] OTHER -> << >>

\* the blocks of one bucket that exist, in order
BucketSlots(bucket, blocks) ==
  SelectSeq([i \in Slots |-> i],
            LAMBDA i : blocks[i].exists /\ DatablockPool[i].kind = bucket)

SlotsOfBuckets(buckets, blocks) ==
  Concat([k \in 1..Len(buckets) |-> BucketSlots(buckets[k], blocks)])

\* _iter_target_datablocks: the slots, in order
IterTargetDatablocks(prefs, blocks) == SlotsOfBuckets(Buckets(prefs.target_type), blocks)

\* _source_dir_for_datablock: (src_dir, from_blend_fallback), src_dir "" for None
SourceDirForDatablock(slot, filepath) ==
  IF DatablockPool[slot].source_file # << >>
    THEN [src_dir |-> OsDirname(OsAbspath(BpyAbspath(DatablockPool[slot].source_file, filepath))),
          from_blend_fallback |-> FALSE]
  ELSE IF filepath # << >>
    THEN [src_dir |-> OsDirname(OsAbspath(filepath)), from_blend_fallback |-> TRUE]
  ELSE [src_dir |-> << >>, from_blend_fallback |-> FALSE]

NotSkipped(tail) == [skip |-> "", tail |-> tail]
Skipped(why) == [skip |-> why, tail |-> << >>]

\* the tail of a block below the library root: its folders, then its type
\* segment when the folder is the project's
FolderTail(parts, kind, from_blend_fallback) ==
  Join([k \in 1..Len(parts) |-> SafeSegment(parts[k])]
         \o (IF from_blend_fallback THEN << SafeSegment(kind) >> ELSE << >>),
       Slash)

\* The RELATIVE_FOLDER branch of the loop body of _build_assignment_plan, for
\* the relative path rel from the library root to the block's source folder.
ClassifyRelative(rel, kind, from_blend_fallback) ==
  IF StartsWith(rel, DotDot) THEN Skipped("external")
  ELSE IF rel = <<".">>
    THEN NotSkipped(IF from_blend_fallback THEN SafeSegment(kind) ELSE << >>)
  ELSE NotSkipped(FolderTail(Components(ReplaceChar(rel, "\\", "/")), kind, from_blend_fallback))

\* A branch that takes a block with a source folder whatever the folder is.
ClassifyAnySourceDir(sd, library_root, kind) ==
  IF sd.src_dir = << >> THEN Skipped("external")
  ELSE NotSkipped(FolderTail(Components(ReplaceChar(OsRelpath(sd.src_dir, library_root),
                                                    "\\", "/")),
                             kind, sd.from_blend_fallback))

ClassifyBySourceDir(sd, library_root, kind) ==
  IF sd.src_dir = << >> THEN Skipped("external")
  ELSE ClassifyRelative(OsRelpath(sd.src_dir, library_root), kind, sd.from_blend_fallback)

\* A loop body that looks at the library of a block in folder mode only.
ClassifyLinkedByName(prefs, filepath, library_root, slot, name) ==
  IF prefs.classification_mode = NAME_PREFIX
    THEN NotSkipped(PrefixFromName(name, prefs.prefix_delimiter))
  ELSE IF DatablockPool[slot].library THEN Skipped("linked")
  ELSE ClassifyBySourceDir(SourceDirForDatablock(slot, filepath), library_root,
                           DatablockPool[slot].kind)

\* What the loop body of _build_assignment_plan does with one block:
\* "linked", "external", or the tail of its catalog path.
ClassifyDatablock(prefs, filepath, library_root, slot, name) ==
  IF DatablockPool[slot].library THEN Skipped("linked")
  ELSE IF prefs.classification_mode = NAME_PREFIX
    THEN NotSkipped(PrefixFromName(name, prefs.prefix_delimiter))
  ELSE ClassifyBySourceDir(SourceDirForDatablock(slot, filepath), library_root,
                           DatablockPool[slot].kind)

\* the plan item of a block that is not skipped
PlanItem(prefs, slot, name, tail) ==
  [block |-> slot, name |-> name,
   catalog_path |-> ComposeCatalogPath(prefs.catalog_root_prefix, tail)]

\* A result that counts every skipped target as linked.
PlanOfOneCount(prefs, blocks, r, targets, cls, planned) ==
  [ok |-> TRUE, library_root |-> r.root, root_source |-> r.source,
   plan |-> [j \in 1..Len(planned) |->
               PlanItem(prefs, targets[planned[j]], blocks[targets[planned[j]]].name,
                        cls[planned[j]].tail)],
   skipped_linked |-> Cardinality({k \in 1..Len(targets) : cls[k].skip = "linked"}),
   skipped_external |-> 0]

\* What _build_assignment_plan returns, from what its loop did with each target.
PlanOf(prefs, blocks, r, targets, cls, planned) ==
  [ok |-> TRUE, library_root |-> r.root, root_source |-> r.source,
   plan |-> [j \in 1..Len(planned) |->
               PlanItem(prefs, targets[planned[j]], blocks[targets[planned[j]]].name,
                        cls[planned[j]].tail)],
   skipped_linked |-> Cardinality({k \in 1..Len(targets) : cls[k].skip = "linked"}),
   skipped_external |-> Cardinality({k \in 1..Len(targets) : cls[k].skip = "external"})]

PlanFromClasses(prefs, blocks, r, targets, cls) ==
  PlanOf(prefs, blocks, r, targets, cls,
         SelectSeq([k \in 1..Len(targets) |-> k], LAMBDA k : cls[k].skip = ""))

PlanForTargets(prefs, filepath, blocks, r, targets) ==
  PlanFromClasses(prefs, blocks, r, targets,
                  [k \in 1..Len(targets) |->
                     ClassifyDatablock(prefs, filepath, r.root, targets[k],
                                       blocks[targets[k]].name)])

PlanForRoot(prefs, filepath, blocks, r) ==
  IF r.root = << >>
    THEN [ok |-> FALSE, library_root |-> << >>, root_source |-> r.source, plan |-> << >>,
          skipped_linked |-> 0, skipped_external |-> 0]
  ELSE PlanForTargets(prefs, filepath, blocks, r, IterTargetDatablocks(prefs, blocks))

\* _build_assignment_plan; ok is FALSE where the code raises ValueError
BuildAssignmentPlan(prefs, filepath, blocks) ==
  PlanForRoot(prefs, filepath, blocks, ResolveAssetLibraryRoot(prefs, filepath))

\* the zero byte that ends each name and each path in the signature
Nul == "\\0"

\* A signature that leaves the auto-mark flag out.
PlanSignatureWithoutFlag(prefs, root, plan) ==
  root \o prefs.asset_library_name \o prefs.asset_library_root_folder
       \o prefs.classification_mode \o prefs.prefix_delimiter \o prefs.catalog_root_prefix
       \o prefs.target_type
       \o Concat([j \in 1..Len(plan) |->
                    plan[j].name \o <<Nul>> \o plan[j].catalog_path \o <<Nul>>])

\* What _plan_signature feeds to SHA-1, in order. The digest is taken to be
\* collision-free, so two signatures are equal exactly when these texts are.
PlanSignature(prefs, root, plan) ==
  root \o prefs.asset_library_name \o prefs.asset_library_root_folder
       \o prefs.classification_mode \o prefs.prefix_delimiter \o prefs.catalog_root_prefix
       \o prefs.target_type \o StrBool(prefs.auto_mark_missing_as_assets)
       \o Concat([j \in 1..Len(plan) |->
                    plan[j].name \o <<Nul>> \o plan[j].catalog_path \o <<Nul>>])

\* ------------------------------------------------------------------ state

VARIABLES
  prefs,      \* the add-on preferences (AUTO_CATALOGER_preferences)
  filepath,   \* bpy.data.filepath: the project file, "" when it is not saved
  blocks,     \* per slot of the pool: exists, name, asset_data (marked), catalog_id
  fs,         \* per library root: the catalog file and its .bak sibling
  state,      \* context.scene.auto_cataloger_runtime
  drawn,      \* how many identifiers uuid.uuid4() has handed out
  ret,        \* what the last operation returned or reported
  shadow,     \* history: the preferences and the plan of the last successful preview,
              \* and whether no apply has written or assigned since
  edits,      \* how many times the user changed a preference or a data-block
  host        \* what the other add-ons of the repository work on: the edit mesh
              \* of post-unwrap-cleaner, the curve of smart-curve-helper, the
              \* materials of the asset bulk manager; empty for the auto-cataloger

vars == << prefs, filepath, blocks, fs, state, drawn, ret, shadow, edits, host >>

\* ----------------------------------------------------------------- bounds

\* the user edits (preferences, data-blocks) a run holds at most
MaxEdits == 2
\* the identifiers a run draws at most
MaxDrawn == 2
\* the lines a catalog file handed to the reader holds at most
MaxLines == 2
\* the characters a name handed to _safe_segment holds at most
MaxLen == 3
\* the items of the longest plan a preview is handed
MaxPlan == 51

\* --------------------------------------------------------------- inputs

ManualFolder == << "/", "m" >>
ProjectDir == << "/", "L", "/", ".", ".", "p" >>
Roots == {LibraryPath, ManualFolder, ProjectDir}

\* The values the user gives each preference.
PrefValues ==
  [asset_library_name |-> {MANUAL_LIBRARY_KEY, LibraryItemIdForPath(LibraryPath)},
   asset_library_root_folder |-> {<< >>, ManualFolder},
   classification_mode |-> {NAME_PREFIX, RELATIVE_FOLDER},
   prefix_delimiter |-> {UNDERSCORE, SPACE},
   catalog_root_prefix |->
     {DefaultPrefs.catalog_root_prefix, << "/", " ", "M" >>},
   target_type |-> {ALL, OBJECTS_COLLECTIONS},
   auto_mark_missing_as_assets |-> {FALSE, TRUE}]

\* A catalog file written by hand before the session: comment, version line,
\* two entries out of order, a blank line and a line that is no entry.
HandMadeFile ==
  FileOf(<< "#", "c", "\n", "V", "E", "R", "S", "I", "O", "N", " ", "1", "\n",
            "k", "2", ":", "B", ":", "B", "\n", "\n",
            "k", "1", ":", "A", ":", "A", "\n", "x", "\n" >>)

InitFiles == {NoFile, HandMadeFile}

\* The catalog paths a caller hands to _ensure_catalogs.
PathPool ==
  { << "A" >>, << "A", ":", "B" >>, << "/", " ", "A" >>, << " ", "A" >>,
    << "F", "o", "o", "\\", "B", "a", "r", "/", "/", "B", "a", "z", "/" >>,
    << "F", "o", "o", "/", "B", "a", "r", "/", "B", "a", "z" >>,
    << >> }

\* what one direct call is handed: no path, one path or two
Requests == {{p, q} : p \in PathPool, q \in PathPool} \cup {{}}

\* the library root the direct calls of _ensure_catalogs work on
StoreRoot == LibraryPath

NoRet ==
  [op |-> "", status |-> "", msg |-> "", root |-> << >>, paths |-> {},
   created |-> 0, uuid_map |-> EmptyMap, wrote |-> FALSE, assigned |-> 0,
   skipped_unmarked |-> 0, auto_marked |-> 0,
   headers |-> << >>, entries |-> EmptyMap, input |-> << >>, output |-> << >>,
   built |-> FALSE, plan |-> << >>, skipped_linked |-> 0, skipped_external |-> 0,
   before |-> NoFile]

Ret(op, status, msg) == [NoRet EXCEPT !.op = op, !.status = status, !.msg = msg]

\* what a call of _ensure_catalogs on root with the paths returned and did
RetEnsure(op, status, root, paths, e, assigned) ==
  [op |-> op, status |-> status, msg |-> "", root |-> root, paths |-> paths,
   created |-> e.created, uuid_map |-> e.uuid_map, wrote |-> e.wrote,
   assigned |-> assigned, skipped_unmarked |-> 0, auto_marked |-> 0,
   headers |-> e.headers, entries |-> e.entries, input |-> << >>, output |-> << >>,
   built |-> FALSE, plan |-> << >>, skipped_linked |-> 0, skipped_external |-> 0,
   before |-> NoFile]

\* r with what the operation got from _build_assignment_plan: whether it
\* returned, the plan and the two skip counts
Built(r, b) ==
  [r EXCEPT !.built = b.ok, !.plan = b.plan, !.skipped_linked = b.skipped_linked,
            !.skipped_external = b.skipped_external]

NoShadow == [prefs |-> DefaultPrefs, plan |-> << >>, fresh |-> FALSE]

InitBlocks ==
  [i \in Slots |->
     [exists |-> i \in {1, 2}, name |-> DatablockPool[i].name,
      asset_data |-> i = 1, catalog_id |-> NoCatalogId]]

\* ------------------------------------------------------------ operators

\* The plan as the history records it: which block goes to which catalog path.
PlanPairs(plan) == [j \in 1..Len(plan) |-> << plan[j].block, plan[j].catalog_path >>]

\* A preview that leaves the runtime state as it is when no plan can be built.
PreviewKeepingState(b) ==
  IF ~b.ok
    THEN /\ state' = state
         /\ ret' = Built(Ret("preview", "CANCELLED", "root"), b)
         /\ shadow' = shadow
  ELSE /\ state' =
            [preview_items |->
               [j \in 1..(IF Len(b.plan) < 50 THEN Len(b.plan) ELSE 50) |->
                  [asset_name |-> b.plan[j].name, catalog_path |-> b.plan[j].catalog_path]],
             preview_total |-> Len(b.plan),
             preview_catalog_count |-> Cardinality({b.plan[j].catalog_path : j \in 1..Len(b.plan)}),
             preview_skipped_linked |-> b.skipped_linked,
             preview_skipped_external |-> b.skipped_external,
             preview_signature |-> PlanSignature(prefs, b.library_root, b.plan),
             preview_ready |-> TRUE,
             last_root |-> b.library_root,
             last_root_source |-> b.root_source]
       /\ ret' = Built(Ret("preview", "FINISHED", ""), b)
       /\ shadow' = [prefs |-> prefs, plan |-> PlanPairs(b.plan), fresh |-> TRUE]

\* A preview that stores a row for every item of the plan.
PreviewAllRows(b) ==
  IF ~b.ok
    THEN /\ state' = [state EXCEPT !.preview_items = << >>, !.preview_ready = FALSE,
                                   !.preview_signature = << >>]
         /\ ret' = Built(Ret("preview", "CANCELLED", "root"), b)
         /\ shadow' = shadow
  ELSE /\ state' =
            [preview_items |->
               [j \in 1..Len(b.plan) |->
                  [asset_name |-> b.plan[j].name, catalog_path |-> b.plan[j].catalog_path]],
             preview_total |-> Len(b.plan),
             preview_catalog_count |-> Cardinality({b.plan[j].catalog_path : j \in 1..Len(b.plan)}),
             preview_skipped_linked |-> b.skipped_linked,
             preview_skipped_external |-> b.skipped_external,
             preview_signature |-> PlanSignature(prefs, b.library_root, b.plan),
             preview_ready |-> TRUE,
             last_root |-> b.library_root,
             last_root_source |-> b.root_source]
       /\ ret' = Built(Ret("preview", "FINISHED", ""), b)
       /\ shadow' = [prefs |-> prefs, plan |-> PlanPairs(b.plan), fresh |-> TRUE]

\* AUTO_CATALOGER_OT_preview.execute once the plan is built
PreviewWith(b) ==
  IF ~b.ok
    THEN /\ state' = [state EXCEPT !.preview_items = << >>, !.preview_ready = FALSE,
                                   !.preview_signature = << >>]
         /\ ret' = Built(Ret("preview", "CANCELLED", "root"), b)
         /\ shadow' = shadow
  ELSE /\ state' =
            [preview_items |->
               [j \in 1..(IF Len(b.plan) < 50 THEN Len(b.plan) ELSE 50) |->
                  [asset_name |-> b.plan[j].name, catalog_path |-> b.plan[j].catalog_path]],
             preview_total |-> Len(b.plan),
             preview_catalog_count |-> Cardinality({b.plan[j].catalog_path : j \in 1..Len(b.plan)}),
             preview_skipped_linked |-> b.skipped_linked,
             preview_skipped_external |-> b.skipped_external,
             preview_signature |-> PlanSignature(prefs, b.library_root, b.plan),
             preview_ready |-> TRUE,
             last_root |-> b.library_root,
             last_root_source |-> b.root_source]
       /\ ret' = Built(Ret("preview", "FINISHED", ""), b)
       /\ shadow' = [prefs |-> prefs, plan |-> PlanPairs(b.plan), fresh |-> TRUE]

\* AUTO_CATALOGER_OT_preview.execute
OpPreview ==
  /\ \E b \in {BuildAssignmentPlan(prefs, filepath, blocks)} : PreviewWith(b)
  /\ UNCHANGED << prefs, filepath, blocks, fs, drawn, edits, host >>

\* asset_mark() on a block that is no asset, when the preference asks for it
AutoMark(blks, k, auto_mark) ==
  IF ~blks[k].asset_data /\ auto_mark
    THEN [blks EXCEPT ![k].asset_data = TRUE, ![k].catalog_id = NoCatalogId]
  ELSE blks

\* The counters of the assignment loop of apply before its first item.
NoCounts == [assigned |-> 0, skipped_unmarked |-> 0, auto_marked |-> 0]

\* what the assignment loop leaves: the blocks, whether it raised, its counters
LoopResult(blks, raised, n) ==
  [blocks |-> blks, raised |-> raised, assigned |-> n.assigned,
   skipped_unmarked |-> n.skipped_unmarked, auto_marked |-> n.auto_marked]

\* The assignment loop of AUTO_CATALOGER_OT_apply.execute from the i-th plan
\* item on, with the counters n; raised is TRUE where uuid_map[catalog_path]
\* raises KeyError. ApplyItem is its body once the block has been auto-marked.
RECURSIVE ApplyLoop(_, _, _, _, _, _)
RECURSIVE ApplyItem(_, _, _, _, _, _)
\* A loop body that counts the block as assigned and leaves its catalog id.
ApplyItemCountOnly(plan, i, marked, uuid_map, auto_mark, n) ==
  IF ~marked[plan[i].block].asset_data
    THEN ApplyLoop(plan, i + 1, marked, uuid_map, auto_mark,
                   [n EXCEPT !.skipped_unmarked = @ + 1])
  ELSE ApplyLoop(plan, i + 1, marked, uuid_map, auto_mark, [n EXCEPT !.assigned = @ + 1])

ApplyItem(plan, i, marked, uuid_map, auto_mark, n) ==
  IF ~marked[plan[i].block].asset_data
    THEN ApplyLoop(plan, i + 1, marked, uuid_map, auto_mark,
                   [n EXCEPT !.skipped_unmarked = @ + 1])
  ELSE IF plan[i].catalog_path \notin DOMAIN uuid_map
    THEN LoopResult(marked, TRUE, n)
  ELSE ApplyLoop(plan, i + 1,
                 [marked EXCEPT ![plan[i].block].catalog_id = uuid_map[plan[i].catalog_path]],
                 uuid_map, auto_mark, [n EXCEPT !.assigned = @ + 1])

ApplyLoop(plan, i, blks, uuid_map, auto_mark, n) ==
  IF i > Len(plan) THEN LoopResult(blks, FALSE, n)
  ELSE ApplyItem(plan, i, AutoMark(blks, plan[i].block, auto_mark), uuid_map, auto_mark,
                 IF ~blks[plan[i].block].asset_data /\ auto_mark
                   THEN [n EXCEPT !.auto_marked = @ + 1] ELSE n)

\* apply returns CANCELLED before it touches anything
ApplyCancel(b, msg) ==
  /\ ret' = Built(Ret("apply", "CANCELLED", msg), b)
  /\ UNCHANGED << blocks, fs, state, drawn, shadow >>

\* what apply reports once the catalogs are ensured (e) and the loop has run
\* (a); before is the catalog file as _ensure_catalogs found it
ApplyReport(status, b, catalog_paths, e, a) ==
  Built([RetEnsure("apply", status, b.library_root, catalog_paths, e, a.assigned)
           EXCEPT !.skipped_unmarked = a.skipped_unmarked, !.auto_marked = a.auto_marked,
                  !.before = fs[b.library_root].cat],
        b)

\* The end of apply: the catalogs are ensured (e), the loop has run (a).
ApplyFinish(b, catalog_paths, e, a) ==
  /\ drawn + e.created <= MaxDrawn
  /\ fs' = [fs EXCEPT ![b.library_root] = e.dir]
  /\ drawn' = drawn + e.created
  /\ blocks' = a.blocks
  /\ shadow' = [shadow EXCEPT !.fresh =
                  IF e.wrote \/ a.assigned > 0 THEN FALSE ELSE @]
  /\ IF a.raised
       THEN /\ state' = state
            /\ ret' = ApplyReport("RAISED", b, catalog_paths, e, a)
     ELSE /\ state' = [state EXCEPT
                         !.preview_total = a.assigned,
                         !.preview_catalog_count = Cardinality(catalog_paths),
                         !.preview_skipped_linked = b.skipped_linked,
                         !.preview_skipped_external = b.skipped_external,
                         !.preview_ready = FALSE,
                         !.preview_signature = << >>,
                         !.last_root = b.library_root,
                         !.last_root_source = b.root_source]
          /\ ret' = ApplyReport("FINISHED", b, catalog_paths, e, a)

ApplyEnsure(b, catalog_paths) ==
  \E e \in {EnsureCatalogs(fs[b.library_root], catalog_paths, drawn)} :
    \E a \in {ApplyLoop(b.plan, 1, blocks, e.uuid_map, prefs.auto_mark_missing_as_assets,
                          NoCounts)} :
      ApplyFinish(b, catalog_paths, e, a)

\* An apply that hashes the root folder of the preferences where the preview
\* hashed the resolved root.
ApplyWithFolderSignature(b) ==
  IF ~b.ok THEN ApplyCancel(b, "root")
  ELSE IF ~state.preview_ready THEN ApplyCancel(b, "no_preview")
  ELSE IF state.preview_signature # PlanSignature(prefs, prefs.asset_library_root_folder, b.plan)
    THEN ApplyCancel(b, "stale")
  ELSE IF b.plan = << >> THEN ApplyCancel(b, "empty")
  ELSE ApplyEnsure(b, {b.plan[j].catalog_path : j \in 1..Len(b.plan)})

\* AUTO_CATALOGER_OT_apply.execute once the plan is built
ApplyWith(b) ==
  IF ~b.ok THEN ApplyCancel(b, "root")
  ELSE IF ~state.preview_ready THEN ApplyCancel(b, "no_preview")
  ELSE IF state.preview_signature # PlanSignature(prefs, b.library_root, b.plan)
    THEN ApplyCancel(b, "stale")
  ELSE IF b.plan = << >> THEN ApplyCancel(b, "empty")
  ELSE ApplyEnsure(b, {b.plan[j].catalog_path : j \in 1..Len(b.plan)})

\* AUTO_CATALOGER_OT_apply.execute
OpApply ==
  /\ \E b \in {BuildAssignmentPlan(prefs, filepath, blocks)} : ApplyWith(b)
  /\ UNCHANGED << prefs, filepath, edits, host >>

\* A restore that copies the catalog file over the backup.
RestoreReversed(root) ==
  IF root = << >>
    THEN /\ ret' = Ret("restore", "CANCELLED", "root")
         /\ fs' = fs
  ELSE IF ~fs[root].bak.exists
    THEN /\ ret' = Ret("restore", "CANCELLED", "no_backup")
         /\ fs' = fs
  ELSE /\ ret' = Ret("restore", "FINISHED", "")
       /\ fs' = [fs EXCEPT ![root].bak = fs[root].cat]

\* AUTO_CATALOGER_OT_restore_backup.execute once the root is resolved
RestoreWith(root) ==
  IF root = << >>
    THEN /\ ret' = Ret("restore", "CANCELLED", "root")
         /\ fs' = fs
  ELSE IF ~fs[root].bak.exists
    THEN /\ ret' = Ret("restore", "CANCELLED", "no_backup")
         /\ fs' = fs
  ELSE /\ ret' = Ret("restore", "FINISHED", "")
       /\ fs' = [fs EXCEPT ![root].cat = fs[root].bak]

\* AUTO_CATALOGER_OT_restore_backup.execute
OpRestore ==
  /\ \E r \in {ResolveAssetLibraryRoot(prefs, filepath)} : RestoreWith(r.root)
  /\ UNCHANGED << prefs, filepath, blocks, state, drawn, shadow, edits, host >>

\* The user changes one preference in the panel.
EditPrefs ==
  /\ edits < MaxEdits
  /\ \E f \in DOMAIN PrefValues : \E v \in PrefValues[f] :
       /\ v # prefs[f]
       /\ prefs' = [prefs EXCEPT ![f] = v]
  /\ edits' = edits + 1
  /\ ret' = Ret("edit", "", "")
  /\ UNCHANGED << filepath, blocks, fs, state, drawn, shadow, host >>

\* The user deletes a local data-block.
BlockRemove ==
  /\ edits < MaxEdits
  /\ \E k \in Slots :
       /\ blocks[k].exists /\ ~DatablockPool[k].library
       /\ blocks' = [blocks EXCEPT ![k].exists = FALSE]
  /\ edits' = edits + 1
  /\ ret' = Ret("edit", "", "")
  /\ UNCHANGED << prefs, filepath, fs, state, drawn, shadow, host >>

\* The user creates a local data-block: it is no asset yet.
BlockCreate ==
  /\ edits < MaxEdits
  /\ \E k \in Slots :
       /\ ~blocks[k].exists
       /\ blocks' = [blocks EXCEPT ![k] = [exists |-> TRUE, name |-> DatablockPool[k].name,
                                            asset_data |-> FALSE, catalog_id |-> NoCatalogId]]
  /\ edits' = edits + 1
  /\ ret' = Ret("edit", "", "")
  /\ UNCHANGED << prefs, filepath, fs, state, drawn, shadow, host >>

\* The user renames a local data-block.
BlockRename ==
  /\ edits < MaxEdits
  /\ \E k \in Slots :
       /\ blocks[k].exists /\ ~DatablockPool[k].library
       /\ blocks' = [blocks EXCEPT ![k].name =
                       IF @ = OtherName THEN DatablockPool[k].name ELSE OtherName]
  /\ edits' = edits + 1
  /\ ret' = Ret("edit", "", "")
  /\ UNCHANGED << prefs, filepath, fs, state, drawn, shadow, host >>

\* The session starts with the default preferences and a project that is
\* saved or not; the project folder has no catalog file yet, the other library
\* folders hold one.
Init ==
  /\ prefs = DefaultPrefs
  /\ filepath \in {<< >>, BlendFile}
  /\ blocks = InitBlocks
  /\ fs = [r \in Roots |->
             [cat |-> IF r = ProjectDir THEN NoFile ELSE HandMadeFile, bak |-> NoFile]]
  /\ state = DefaultRuntime
  /\ drawn = 0
  /\ ret = NoRet
  /\ shadow = NoShadow
  /\ edits = 0
  /\ host = << >>

Next ==
  \/ OpPreview
  \/ OpApply
  \/ OpRestore
  \/ EditPrefs
  \/ BlockRemove
  \/ BlockCreate
  \/ BlockRename

Spec == Init /\ [][Next]_vars

\* A direct call of _ensure_catalogs on the store root with a set of paths.
CallEnsure ==
  /\ \E paths \in Requests :
       \E e \in {EnsureCatalogs(fs[StoreRoot], paths, drawn)} :
         /\ drawn + e.created <= MaxDrawn
         /\ fs' = [fs EXCEPT ![StoreRoot] = e.dir]
         /\ drawn' = drawn + e.created
         /\ ret' = RetEnsure("ensure", "", StoreRoot, paths, e, 0)
  /\ UNCHANGED << prefs, filepath, blocks, state, shadow, edits, host >>

\* The store root holds a catalog file or none; nothing else is in use.
InitStore ==
  /\ prefs = DefaultPrefs
  /\ filepath = BlendFile
  /\ blocks = InitBlocks
  /\ \E f \in InitFiles : fs = [r \in Roots |-> [cat |-> f, bak |-> NoFile]]
  /\ state = DefaultRuntime
  /\ drawn = 0
  /\ ret = NoRet
  /\ shadow = NoShadow
  /\ edits = 0
  /\ host = << >>

NextStore == CallEnsure

\* The catalog store on its own: calls of _ensure_catalogs, one after another.
SpecStore == InitStore /\ [][NextStore]_vars

\* The lines of the catalog files the reader is handed: comments with and
\* without white space around them, version lines, entries, lines with fewer
\* and with more colons than an entry has, and a blank line.
LinePool ==
  { << "#", "c", " " >>,
    << " ", "#", "d" >>,
    VersionOne,
    VersionPrefix,
    << "k", "1", ":", "A", ":", "A" >>,
    << " ", "k", "2", ":", "B", ":", "B", " " >>,
    << "k", ":", "A", ":", "B", ":", "C" >>,
    << "a", ":", "b" >>,
    << >> }

\* the texts of n lines of the pool, each ended by a line feed
RECURSIVE TextsOfLines(_)
TextsOfLines(n) ==
  IF n = 0 THEN {<< >>}
  ELSE {t \o line \o <<"\n">> : t \in TextsOfLines(n - 1), line \in LinePool}

\* The catalog files the reader is handed: none, or up to MaxLines lines.
ReadFiles == {NoFile} \cup {FileOf(t) : t \in UNION {TextsOfLines(n) : n \in 0..MaxLines}}

\* the catalog path a write-back asks for: no file of ReadFiles holds it
NewPath == << "N" >>

\* A direct call of _read_catalog_file on the catalog file of the store root.
CallRead ==
  /\ \E r \in {ReadCatalogFile(fs[StoreRoot].cat)} :
       ret' = [NoRet EXCEPT !.op = "read", !.root = StoreRoot,
                            !.headers = r.headers, !.entries = r.entries]
  /\ UNCHANGED << prefs, filepath, blocks, fs, state, drawn, shadow, edits, host >>

\* A direct call of _ensure_catalogs that asks for the one new path.
CallWriteBack ==
  /\ \E e \in {EnsureCatalogs(fs[StoreRoot], {NewPath}, drawn)} :
       /\ drawn + e.created <= MaxDrawn
       /\ fs' = [fs EXCEPT ![StoreRoot] = e.dir]
       /\ drawn' = drawn + e.created
       /\ ret' = RetEnsure("ensure", "", StoreRoot, {NewPath}, e, 0)
  /\ UNCHANGED << prefs, filepath, blocks, state, shadow, edits, host >>

\* The store root holds one of the files of ReadFiles.
InitRead ==
  /\ prefs = DefaultPrefs
  /\ filepath = BlendFile
  /\ blocks = InitBlocks
  /\ \E f \in ReadFiles : fs = [r \in Roots |-> [cat |-> f, bak |-> NoFile]]
  /\ state = DefaultRuntime
  /\ drawn = 0
  /\ ret = NoRet
  /\ shadow = NoShadow
  /\ edits = 0
  /\ host = << >>

NextRead ==
  \/ CallRead
  \/ CallWriteBack

\* The reader and the writer on catalog files of every shape: the file is
\* read, and written back with one entry more.
SpecRead == InitRead /\ [][NextRead]_vars

\* The characters of the names _safe_segment is handed: letters, a digit, the
\* three signs it keeps, white space, and two characters it does not keep.
SegmentChars == {"a", "B", "7", ".", "-", "_", " ", "\t", "!", "/"}

\* the texts of n characters of SegmentChars
RECURSIVE TextsOfChars(_)
TextsOfChars(n) ==
  IF n = 0 THEN {<< >>}
  ELSE {t \o << c >> : t \in TextsOfChars(n - 1), c \in SegmentChars}

\* A direct call of _safe_segment on the name held as input.
CallSafeSegment ==
  /\ ret.op = "name"
  /\ ret' = [ret EXCEPT !.op = "safe_segment", !.output = SafeSegment(ret.input)]
  /\ UNCHANGED << prefs, filepath, blocks, fs, state, drawn, shadow, edits, host >>

\* A name of up to MaxLen characters is at hand.
InitSegment ==
  /\ prefs = DefaultPrefs
  /\ filepath = BlendFile
  /\ blocks = InitBlocks
  /\ fs = [r \in Roots |-> [cat |-> NoFile, bak |-> NoFile]]
  /\ state = DefaultRuntime
  /\ drawn = 0
  /\ \E n \in 0..MaxLen : \E t \in TextsOfChars(n) :
       ret = [NoRet EXCEPT !.op = "name", !.input = t]
  /\ shadow = NoShadow
  /\ edits = 0
  /\ host = << >>

\* _safe_segment on its own, on every name of up to MaxLen characters.
SpecSegment == InitSegment /\ [][CallSafeSegment]_vars

\* ------------------------------------------------------------ coordinator

\* A successful preview is in force and a preference differs from what it saw.
ConfigChangedSincePreview == state.preview_ready /\ prefs # shadow.prefs

PlanChangedSincePreview ==
  /\ state.preview_ready
  /\ prefs = shadow.prefs
  /\ PlanPairs(BuildAssignmentPlan(prefs, filepath, blocks).plan) # shadow.plan

\* C2: when the items of the plan or the catalog path of an item differ from
\* those of the last successful preview (an item added, removed or replaced),
\* apply is rejected as stale and writes nothing.
ChangedPlanIsStale ==
  [][(ret'.op = "apply" /\ PlanChangedSincePreview)
       => (ret'.status = "CANCELLED" /\ ret'.msg = "stale"
           /\ fs' = fs /\ blocks' = blocks)]_vars

\* the last operation was an apply that wrote the catalog or assigned a block
Succeeded(r) == r.op = "apply" /\ (r.wrote \/ r.assigned > 0)

\* C3: every apply that writes the catalog or assigns an item follows a
\* successful preview with no other such apply in between, and an apply
\* directly after such an apply is rejected.
ApplyNeedsFreshPreview ==
  [][ret'.op = "apply"
       => /\ Succeeded(ret') => shadow.fresh
          /\ Succeeded(ret) => ret'.status = "CANCELLED"]_vars

\* ---------------------------------------------------------- catalog store

\* the entries _read_catalog_file finds in the catalog file of the store root
StoredEntries(files) == ReadCatalogFile(files[StoreRoot].cat).entries

\* C4: a second call of _ensure_catalogs with the same paths, directly after
\* the first, creates nothing and returns the mapping the first returned.
EnsureTwiceSame ==
  [][(ret.op = "ensure" /\ ret'.op = "ensure" /\ ret'.paths = ret.paths)
       => (ret'.created = 0 /\ ret'.uuid_map = ret.uuid_map)]_vars

\* C5: what _write_catalog_file_with_backup has written, _read_catalog_file
\* reads back: the same header lines and the same entries.
WriteReadRoundTrip ==
  (ret.op = "ensure" /\ ret.wrote)
    => ReadCatalogFile(fs[ret.root].cat) = [headers |-> ret.headers, entries |-> ret.entries]

\* every entry of old is in new, with the same identifier and display name
Keeps(old, new) == \A p \in DOMAIN old : p \in DOMAIN new /\ new[p] = old[p]

\* C6: every entry in the catalog file stays in it across a call of
\* _ensure_catalogs, with its path, its identifier and its display name.
EntriesPermanent == [][Keeps(StoredEntries(fs), StoredEntries(fs'))]_vars

\* the path with slashes for backslashes, runs of slashes collapsed and the
\* slashes at its ends removed: two paths that differ only in these are equal here
SlashCanon(path) == StripSet(CollapseRuns(ReplaceChar(path, "\\", "/"), {"/"}, "/"), {"/"})

\* two different paths that differ only in their slashes, neither in the store
NewCollidingPair(paths, stored) ==
  \E p \in paths, q \in paths :
    /\ p # q /\ paths = {p, q}
    /\ SlashCanon(p) = SlashCanon(q)
    /\ NormalizePathFragment(p) \notin DOMAIN stored
    /\ NormalizePathFragment(q) \notin DOMAIN stored

\* C7: two requested paths that differ only in backslash versus slash, in
\* repeated slashes or in slashes at the ends normalize to one path, so a call
\* of _ensure_catalogs with both creates exactly one entry.
CollidingPairOneEntry ==
  [][(ret'.op = "ensure" /\ NewCollidingPair(ret'.paths, StoredEntries(fs)))
       => ret'.created = 1]_vars

\* every requested path is, once normalized, empty or in the store
AllKnown(paths, stored) ==
  \A p \in paths :
    NormalizePathFragment(p) = << >> \/ NormalizePathFragment(p) \in DOMAIN stored

\* C8: when every requested path is, once normalized, already in the store or
\* empty, _ensure_catalogs leaves the catalog file and the .bak file as they
\* are and reports that it created nothing.
KnownPathsWriteNothing ==
  [][(ret'.op = "ensure" /\ AllKnown(ret'.paths, StoredEntries(fs)))
       => (fs' = fs /\ ret'.created = 0)]_vars

\* A call asked for a path the store already held, on a file that exists.
KnownPathRequested ==
  /\ ret.op = "ensure" /\ ret.created = 0 /\ fs[StoreRoot].cat.exists
  /\ \E p \in ret.paths : NormalizePathFragment(p) \in DOMAIN ret.uuid_map

\* C9: when _ensure_catalogs overwrites a catalog file that exists, the .bak
\* file afterwards holds what the catalog file held just before, whatever it
\* held itself; when there was no catalog file, the .bak file is as it was.
BackupIsPreviousFile ==
  [][(ret'.op = "ensure" /\ ret'.wrote)
       => fs'[StoreRoot].bak =
            IF fs[StoreRoot].cat.exists THEN fs[StoreRoot].cat ELSE fs[StoreRoot].bak]_vars

\* A write replaced the backup of the hand-made file by a later catalog file.
BackupReplaced ==
  /\ ret.op = "ensure" /\ ret.wrote
  /\ fs[StoreRoot].bak.exists /\ fs[StoreRoot].bak # HandMadeFile
  /\ \E i \in DOMAIN fs[StoreRoot].bak.data : fs[StoreRoot].bak.data[i] = "k"

\* the path a reader of the file finds in an entry line
LinePath(line) == Split(line, ":", 2)[2]

\* the text ends with a line feed, and with one only
EndsWithOneNewline(data) ==
  /\ data # << >> /\ Last(data) = "\n"
  /\ Len(data) > 1 => data[Len(data) - 1] # "\n"

\* The lines are the headers, then one entry line for each of count entries,
\* with paths that ascend.
LayoutOf(lines, headers, count) ==
  /\ Len(lines) = Len(headers) + count
  /\ SubSeq(lines, 1, Len(headers)) = headers
  /\ \A i \in (Len(headers) + 1)..Len(lines) :
       ~IsHeaderLine(lines[i]) /\ Len(Split(lines[i], ":", 2)) = 3
  /\ \A i \in (Len(headers) + 1)..(Len(lines) - 1) :
       StrLess(LinePath(lines[i]), LinePath(lines[i + 1]))

\* C10: after a write, the catalog file is the header lines, then one line
\* for each entry in ascending order of path and no path twice, and it ends
\* with exactly one line feed.
WrittenFileLayout ==
  (ret.op = "ensure" /\ ret.wrote)
    => /\ EndsWithOneNewline(fs[ret.root].cat.data)
       /\ LayoutOf(FileLines(fs[ret.root].cat.data), ret.headers,
                   Cardinality(DOMAIN ret.entries))

\* ----------------------------------------------------------------- reader

\* the lines of the text that start with # or with "VERSION ", as they are
RawHeaders(data) == SelectSeq(FileLines(data), IsHeaderLine)

\* the lines of the text that start so once the white space around them is
\* stripped, stripped
StrippedHeaders(data) ==
  SelectSeq([i \in 1..Len(FileLines(data)) |-> Strip(FileLines(data)[i])], IsHeaderLine)

\* the header lines old begin the header lines new, in their order, and none
\* is added when old has a version line
KeptIn(old, new) ==
  /\ Len(new) >= Len(old) /\ SubSeq(new, 1, Len(old)) = old
  /\ HasVersionLine(old) => new = old

\* C11, as the code has it: every line of an existing catalog file that,
\* stripped of the white space around it, starts with # or with "VERSION " is
\* kept in that stripped form, and in the same relative order, in the file
\* _ensure_catalogs writes back; no header line is added to a file that has
\* such a VERSION line.
HeadersKeptStripped ==
  [][(ret'.op = "ensure" /\ ret'.wrote /\ fs[StoreRoot].cat.exists)
       => KeptIn(StrippedHeaders(fs[StoreRoot].cat.data),
                 RawHeaders(fs'[StoreRoot].cat.data))]_vars

\* A file with a version line and a header line that had white space around
\* it has been written back: the .bak file holds it.
PaddedHeaderWrittenBack ==
  /\ ret.op = "ensure" /\ ret.wrote /\ fs[StoreRoot].bak.exists
  /\ HasVersionLine(StrippedHeaders(fs[StoreRoot].bak.data))
  /\ StrippedHeaders(fs[StoreRoot].bak.data) # RawHeaders(fs[StoreRoot].bak.data)

\* C11 as stated: every line of an existing catalog file that starts with #
\* or with "VERSION " is kept verbatim, and in the same relative order, in the
\* file _ensure_catalogs writes back; no header line is added to a file that
\* has a VERSION line.
HeadersKeptVerbatim ==
  [][(ret'.op = "ensure" /\ ret'.wrote /\ fs[StoreRoot].cat.exists)
       => KeptIn(RawHeaders(fs[StoreRoot].cat.data),
                 RawHeaders(fs'[StoreRoot].cat.data))]_vars

\* --------------------------------------------------------------- apply

\* C12: whenever an apply does not finish successfully - it is cancelled or
\* ends in an error - the catalog files are as they were and no block's
\* catalog id has changed.
FailedApplyChangesNothing ==
  [][(ret'.op = "apply" /\ ret'.status # "FINISHED")
       => /\ \A r \in Roots : fs'[r].cat = fs[r].cat
          /\ \A k \in Slots : blocks'[k].catalog_id = blocks[k].catalog_id]_vars

\* the text has a line that gives the path the identifier: uuid:path:name
HasLineFor(data, uuid, path) ==
  \E i \in 1..Len(FileLines(data)) :
    StartsWith(FileLines(data)[i], uuid \o <<":">> \o path \o <<":">>)

\* Every item of the plan whose block was an asset, or was made one by the
\* apply, has the identifier uuid_map gives its path, and the text has the line
\* for it; the block of every other item is as it was.
PlanAssigned(plan, before, after, uuid_map, data, auto_mark) ==
  \A j \in 1..Len(plan) :
    IF before[plan[j].block].asset_data \/ auto_mark
      THEN /\ plan[j].catalog_path \in DOMAIN uuid_map
           /\ after[plan[j].block].catalog_id = uuid_map[plan[j].catalog_path]
           /\ HasLineFor(data, after[plan[j].block].catalog_id, plan[j].catalog_path)
    ELSE after[plan[j].block] = before[plan[j].block]

\* C13, as the code has it: after a successful apply, every item of the plan
\* that is an asset (marked before, or marked by the apply when auto-mark is
\* on) has its catalog id set to the identifier _ensure_catalogs returned for
\* its catalog path, and the catalog file holds the line uuid:path:name for
\* it; an item that is no asset is skipped and left as it was.
AssetsOfPlanAssigned ==
  [][(ret'.op = "apply" /\ ret'.status = "FINISHED")
       => PlanAssigned(BuildAssignmentPlan(prefs, filepath, blocks).plan, blocks, blocks',
                       ret'.uuid_map, fs'[ret'.root].cat.data,
                       prefs.auto_mark_missing_as_assets)]_vars

\* An apply finished that assigned a block and skipped one that is no asset.
AppliedWithSkippedNonAsset ==
  /\ ret.op = "apply" /\ ret.status = "FINISHED" /\ ret.assigned > 0
  /\ \E k \in Slots :
       blocks[k].exists /\ ~blocks[k].asset_data /\ ~DatablockPool[k].library

\* every item of the plan has the identifier the entries give its path
PlanHasStoredIds(plan, after, entries) ==
  \A j \in 1..Len(plan) :
    /\ plan[j].catalog_path \in DOMAIN entries
    /\ after[plan[j].block].catalog_id = entries[plan[j].catalog_path].uuid

\* C13 as stated: after a successful apply, every item of the plan has its
\* catalog id set to the identifier the catalog file records for the item's
\* catalog path.
PlanItemsHaveFileIds ==
  [][(ret'.op = "apply" /\ ret'.status = "FINISHED")
       => PlanHasStoredIds(BuildAssignmentPlan(prefs, filepath, blocks).plan, blocks',
                           ReadCatalogFile(fs'[ret'.root].cat).entries)]_vars

\* the fields splitting the stripped line at every colon gives
Fields(line) == Split(Strip(line), ":", -1)

\* the line is neither blank nor a header line
IsBodyLine(line) == Strip(line) # << >> /\ ~IsHeaderLine(Strip(line))

\* the last of the lines numbered in P
LastOf(P) == CHOOSE i \in P : \A j \in P : j <= i

\* the entry a line of at least three fields stands for: the first field is
\* the identifier, and the name is everything after the second colon
EntryOfFields(f) == [uuid |-> f[1], name |-> Join(SubSeq(f, 3, Len(f)), <<":">>)]

\* The entries of the lines when a body line is an entry where accepts(its
\* number of fields): per path, the last such line.
EntriesWhere(lines, accepts(_)) ==
  [p \in {Fields(lines[i])[2] : i \in {k \in 1..Len(lines) :
                                         IsBodyLine(lines[k]) /\ accepts(Len(Fields(lines[k])))}} |->
     EntryOfFields(Fields(lines[
       LastOf({k \in 1..Len(lines) : /\ IsBodyLine(lines[k])
                                     /\ accepts(Len(Fields(lines[k])))
                                     /\ Fields(lines[k])[2] = p})]))]

\* C14, as the code has it: a non-blank, non-header line becomes an entry if
\* and only if it has at least two colons: the identifier is the text before
\* the first colon, the path the text between the first two, the name all the
\* rest, colons included; a line with fewer than two colons creates no entry.
LinesWithTwoColonsAreEntries ==
  ret.op = "read"
    => ret.entries = EntriesWhere(FileLines(fs[ret.root].cat.data), LAMBDA n : n >= 3)

\* A file was read that holds a line of more than three fields and a line of
\* two.
LongAndShortLineRead ==
  /\ ret.op = "read"
  /\ \E i, j \in 1..Len(FileLines(fs[ret.root].cat.data)) :
       /\ IsBodyLine(FileLines(fs[ret.root].cat.data)[i])
       /\ Len(Fields(FileLines(fs[ret.root].cat.data)[i])) > 3
       /\ IsBodyLine(FileLines(fs[ret.root].cat.data)[j])
       /\ Len(Fields(FileLines(fs[ret.root].cat.data)[j])) = 2

\* C14 as stated: a non-blank, non-header line becomes an entry if and only
\* if splitting it on the colon gives exactly three fields; a line of fewer or
\* more fields creates no entry.
LinesOfThreeFieldsAreEntries ==
  ret.op = "read"
    => ret.entries = EntriesWhere(FileLines(fs[ret.root].cat.data), LAMBDA n : n = 3)

\* C15: reading a catalog file that does not exist returns the default
\* header of three lines and no entry; and for every file, there or not, the
\* returned header has a line that starts with "VERSION ".
ReadFailsOpen ==
  ret.op = "read"
    => /\ ~fs[ret.root].cat.exists
            => /\ ret.headers = DEFAULT_HEADER_LINES /\ Len(ret.headers) = 3
               /\ ret.entries = EmptyMap
       /\ \E i \in 1..Len(ret.headers) : StartsWith(ret.headers[i], VersionPrefix)

\* The reader was called where there is no catalog file.
MissingFileRead == ret.op = "read" /\ ~fs[ret.root].cat.exists

\* ------------------------------------------------------------- planner

\* the operation returned what _build_assignment_plan had built for it
PlanBuilt(r) == r.op \in {"preview", "apply"} /\ r.built

\* the blocks of the plan
PlanBlocks(plan) == {plan[j].block : j \in 1..Len(plan)}

\* the targets that are linked from another file, and those that are not
LinkedTargets(targets) == {k \in 1..Len(targets) : DatablockPool[targets[k]].library}
LocalTargets(targets) == {k \in 1..Len(targets) : ~DatablockPool[targets[k]].library}

\* No linked block is in the plan b, skipped_linked counts the linked targets
\* and skipped_external counts local targets only.
LinkedLeftOut(b, targets) ==
  /\ \A k \in LinkedTargets(targets) : targets[k] \notin PlanBlocks(b.plan)
  /\ b.skipped_linked = Cardinality(LinkedTargets(targets))
  /\ b.skipped_external =
       Cardinality({k \in LocalTargets(targets) : targets[k] \notin PlanBlocks(b.plan)})

\* C16: in both classification modes, every target that is linked is left out
\* of the plan that preview and apply build, adds one to the skipped-linked
\* count and nothing to the skipped-external count, and no apply changes it.
LinkedAlwaysExcluded ==
  [][/\ PlanBuilt(ret') => LinkedLeftOut(ret', IterTargetDatablocks(prefs, blocks))
     /\ ret'.op = "apply"
          => \A k \in Slots : DatablockPool[k].library => blocks'[k] = blocks[k]]_vars

\* An apply in folder mode assigned a block while a linked block was a target.
AppliedBesideLinked ==
  /\ ret.op = "apply" /\ ret.status = "FINISHED" /\ ret.assigned > 0
  /\ prefs.classification_mode = RELATIVE_FOLDER
  /\ ret.skipped_linked = 1
  /\ LinkedTargets(IterTargetDatablocks(prefs, blocks)) # {}

\* the folder is neither the root nor below it (no folder at all is neither)
OutsideRoot(src_dir, root) ==
  ~(src_dir = root \/ StartsWith(src_dir, root \o Slash))

\* the local targets whose source folder is outside the root
EscapingTargets(targets, blend, root) ==
  {k \in LocalTargets(targets) :
     OutsideRoot(SourceDirForDatablock(targets[k], blend).src_dir, root)}

\* No escaping target is in the plan b, and skipped_external counts each of
\* them.
EscapingLeftOut(b, escaping, targets) ==
  /\ \A k \in escaping : targets[k] \notin PlanBlocks(b.plan)
  /\ b.skipped_external >= Cardinality(escaping)

\* the blocks of the escaping targets are after as they were before
EscapingUntouched(escaping, targets, before, after) ==
  \A k \in escaping : after[targets[k]] = before[targets[k]]

\* what folder mode asks of an operation that built the plan b: the escaping
\* targets are left out and counted, and an apply leaves their blocks alone
EscapingExcludedBy(b, escaping, targets, before, after) ==
  /\ EscapingLeftOut(b, escaping, targets)
  /\ b.op = "apply" => EscapingUntouched(escaping, targets, before, after)

CountsAddUp(b, targets) ==
  /\ PlanBlocks(b.plan) \subseteq {targets[k] : k \in 1..Len(targets)}
  /\ Cardinality(PlanBlocks(b.plan)) = Len(b.plan)
  /\ Len(b.plan) + b.skipped_linked + b.skipped_external = Len(targets)

\* what a finished preview stores of the plan b: its length and skip counts
PreviewReports(b, st) ==
  /\ st.preview_total = Len(b.plan)
  /\ st.preview_skipped_linked = b.skipped_linked
  /\ st.preview_skipped_external = b.skipped_external

\* What a finished apply stores and reports of the plan b: the skip counts,
\* and the plan as the blocks assigned and the non-assets skipped.
ApplyReports(b, st) ==
  /\ st.preview_total = b.assigned
  /\ b.assigned + b.skipped_unmarked = Len(b.plan)
  /\ st.preview_skipped_linked = b.skipped_linked
  /\ st.preview_skipped_external = b.skipped_external

\* what the finished operation stores agrees with the plan b it built
SummaryOf(b, st) ==
  /\ (b.op = "preview" /\ b.status = "FINISHED") => PreviewReports(b, st)
  /\ (b.op = "apply" /\ b.status = "FINISHED") => ApplyReports(b, st)

\* C18: in every plan that preview and apply build, each target is exactly
\* one of planned, skipped as linked or skipped as external, so the length of
\* the plan and the two skip counts add up to the number of targets; a finished
\* preview stores these counts, and a finished apply stores the two skip counts
\* and reports the plan as assigned blocks plus skipped non-assets.
NoTargetDropped ==
  [][PlanBuilt(ret')
       => /\ CountsAddUp(ret', IterTargetDatablocks(prefs, blocks))
          /\ SummaryOf(ret', state')]_vars

\* An apply finished on three targets: one planned and assigned, one linked,
\* one out of the root.
AllThreeKindsReported ==
  /\ ret.op = "apply" /\ ret.status = "FINISHED" /\ ret.assigned = 1
  /\ state.preview_skipped_linked = 1 /\ state.preview_skipped_external = 1

\* C19: when the library root cannot be resolved, preview and apply are each
\* cancelled with that error, no catalog file or backup file is created or
\* written, no block is changed, and the preview leaves the state not Previewed.
NoRootCancels ==
  [][(ResolveAssetLibraryRoot(prefs, filepath).root = << >>
        /\ ret'.op \in {"preview", "apply"})
       => /\ ret'.status = "CANCELLED" /\ ret'.msg = "root"
          /\ fs' = fs /\ blocks' = blocks
          /\ ret'.op = "preview" => ~state'.preview_ready]_vars

\* A preview was cancelled for want of a root after an earlier one succeeded.
PreviewLostItsRoot ==
  /\ ret.op = "preview" /\ ret.status = "CANCELLED" /\ ret.msg = "root"
  /\ shadow.fresh /\ ~state.preview_ready
  /\ ResolveAssetLibraryRoot(prefs, filepath).root = << >>

\* ----------------------------------------------------------- sanitizer

\* the characters that make up the words of a name: those _safe_segment
\* keeps, the underscore apart
WordChars == SafeChars \ {"_"}

\* the maximal runs of word characters of the text, in order
WordsOf(text) ==
  SelectSeq(PiecesAt(text, Ascending({k \in 1..Len(text) : text[k] \notin WordChars})),
            LAMBDA w : w # << >>)

\* the words joined by underscores, Uncategorized for none
JoinedWords(words) == IF words = << >> THEN Uncategorized ELSE Join(words, <<"_">>)

\* the text is not empty and holds characters of [A-Za-z0-9._-] only
IsSafeToken(text) == text # << >> /\ \A i \in 1..Len(text) : text[i] \in SafeChars

\* C20, as the code has it: _safe_segment returns the maximal runs of
\* characters of [A-Za-z0-9.-] of its input joined by single underscores -
\* white space, underscores and every other character separate the runs and
\* are replaced, not removed, and none is left at either end - or
\* Uncategorized when there is no such run; the result is never empty and
\* holds characters of [A-Za-z0-9._-] only.
SafeSegmentJoinsWords ==
  ret.op = "safe_segment"
    => ret.output = JoinedWords(WordsOf(ret.input)) /\ IsSafeToken(ret.output)

\* A name with an unkept character between two letters has been sanitized.
UnsafeBetweenLettersSeen ==
  /\ ret.op = "safe_segment" /\ Len(ret.input) = 3
  /\ ret.input[1] \in WordChars /\ ret.input[2] \notin SafeChars \cup Whitespace
  /\ ret.input[3] \in WordChars

\* the text the stated rule gives: white space runs to one underscore, the
\* characters outside [A-Za-z0-9._-] removed, repeated underscores collapsed,
\* Uncategorized for an empty result
StatedSegment(value) ==
  UncategorizedIfEmpty(
    CollapseRuns(SelectSeq(CollapseRuns(value, Whitespace, "_"), LAMBDA c : c \in SafeChars),
                 {"_"}, "_"))

\* C20 as stated: _safe_segment returns its input with each white space run
\* collapsed to one underscore, every character outside [A-Za-z0-9._-]
\* removed and repeated underscores collapsed, or Uncategorized when that is
\* empty; the result is never empty and holds characters of [A-Za-z0-9._-] only.
SafeSegmentRemovesUnsafe ==
  ret.op = "safe_segment"
    => ret.output = StatedSegment(ret.input) /\ IsSafeToken(ret.output)

\* ------------------------------------------------------------ fingerprint

\* C21: an apply that directly follows a successful preview, with no change
\* in between, is never rejected as stale or as lacking a preview: the plan it
\* builds is the plan the preview built, and the fingerprint of that plan is
\* the one the preview stored.
DirectApplyNeverStale ==
  [][(ret.op = "preview" /\ ret.status = "FINISHED" /\ ret'.op = "apply")
       => /\ ret'.msg \notin {"stale", "no_preview", "root"}
          /\ ret'.built /\ ret'.plan = ret.plan
          /\ PlanSignature(prefs, ResolveAssetLibraryRoot(prefs, filepath).root, ret'.plan)
               = state.preview_signature]_vars

\* An apply went through in a session without any edit: it followed its
\* preview with the configuration and the items as the preview saw them.
DirectApplySeen ==
  /\ ret.op = "apply" /\ ret.status = "FINISHED" /\ ret.assigned > 0
  /\ edits = 0

\* C26: whenever apply has had _ensure_catalogs make the catalogs of its plan,
\* every catalog path of the plan is a key of the mapping that call returned,
\* so the lookup in the assignment loop does not fail.
PlannedPathsAreKeys ==
  [][(ret'.op = "apply" /\ ret'.status \in {"FINISHED", "RAISED"})
       => /\ \A j \in 1..Len(ret'.plan) : ret'.plan[j].catalog_path \in DOMAIN ret'.uuid_map
          /\ ret'.status = "FINISHED"]_vars

\* ------------------------------------------------------------ normalizer

\* The characters of the fragments _normalize_path_fragment is handed: the
\* slash, the backslash, the space and a letter.
FragmentChars == {"/", "\\", " ", "A"}

\* the fragments of n characters of FragmentChars
RECURSIVE Fragments(_)
Fragments(n) ==
  IF n = 0 THEN {<< >>}
  ELSE {t \o << c >> : t \in Fragments(n - 1), c \in FragmentChars}

\* A direct call of _normalize_path_fragment on the fragment held as input.
CallNormalize ==
  /\ ret.op = "fragment"
  /\ ret' = [ret EXCEPT !.op = "normalize", !.output = NormalizePathFragment(ret.input)]
  /\ UNCHANGED << prefs, filepath, blocks, fs, state, drawn, shadow, edits, host >>

\* A fragment of up to MaxLen characters is at hand.
InitNormalize ==
  /\ prefs = DefaultPrefs
  /\ filepath = BlendFile
  /\ blocks = InitBlocks
  /\ fs = [r \in Roots |-> [cat |-> NoFile, bak |-> NoFile]]
  /\ state = DefaultRuntime
  /\ drawn = 0
  /\ \E n \in 0..MaxLen : \E t \in Fragments(n) :
       ret = [NoRet EXCEPT !.op = "fragment", !.input = t]
  /\ shadow = NoShadow
  /\ edits = 0
  /\ host = << >>

\* _normalize_path_fragment on its own, on every fragment of up to MaxLen
\* characters.
SpecNormalize == InitNormalize /\ [][CallNormalize]_vars

\* C27: normalizing a normalized fragment changes nothing, and a normalized
\* fragment has no backslash, no two slashes in a row, and neither a slash nor
\* white space at either end.
NormalizeIdempotent ==
  ret.op = "normalize"
    => /\ NormalizePathFragment(ret.output) = ret.output
       /\ \A i \in 1..Len(ret.output) : ret.output[i] # "\\"
       /\ \A i \in 1..(Len(ret.output) - 1) : ~(ret.output[i] = "/" /\ ret.output[i + 1] = "/")
       /\ ret.output # << >>
            => /\ ret.output[1] \notin Whitespace \cup {"/"}
               /\ ret.output[Len(ret.output)] \notin Whitespace \cup {"/"}

\* ------------------------------------------------------- folders below root

\* the local targets whose source folder is the root or a folder below it
InsideTargets(targets, blend, root) ==
  {k \in LocalTargets(targets) :
     ~OutsideRoot(SourceDirForDatablock(targets[k], blend).src_dir, root)}

\* C28: in folder mode, every local target whose source folder is the library
\* root or a folder below it is in the plan that preview and apply build,
\* whatever the folder is called, and so is not counted in skipped_external.
InsideAlwaysPlanned ==
  [][(PlanBuilt(ret') /\ prefs.classification_mode = RELATIVE_FOLDER)
       => \A k \in InsideTargets(IterTargetDatablocks(prefs, blocks), filepath,
                                 ResolveAssetLibraryRoot(prefs, filepath).root) :
            IterTargetDatablocks(prefs, blocks)[k] \in PlanBlocks(ret'.plan)]_vars

\* ---------------------------------------------------------------- restore

\* C29: a restore that directly follows an apply which found a catalog file
\* and created an entry puts that file back as the apply found it and changes
\* no other file; a restore that finds no backup file, or no root, is cancelled
\* and changes no file.
RestoreUndoesLastWrite ==
  [][ret'.op = "restore"
       => /\ (ret.op = "apply" /\ ret.created > 0 /\ ret.before.exists)
               => /\ ret'.status = "FINISHED"
                  /\ fs' = [fs EXCEPT ![ret.root].cat = ret.before]
          /\ \E r \in {ResolveAssetLibraryRoot(prefs, filepath).root} :
               (r = << >> \/ ~fs[r].bak.exists)
                 => (ret'.status = "CANCELLED" /\ fs' = fs)]_vars

\* A restore put the hand-made catalog file back after an apply had written
\* over it with a new entry.
RestoredHandMadeFile ==
  /\ ret.op = "restore" /\ ret.status = "FINISHED"
  /\ drawn > 0 /\ ~shadow.fresh
  /\ \E r \in {ResolveAssetLibraryRoot(prefs, filepath).root} :
       /\ r # << >>
       /\ fs[r].cat = HandMadeFile /\ fs[r].bak = HandMadeFile

\* ---------------------------------------------------------------- preview

\* What _build_assignment_plan returns in a file with n local blocks named
\* "a_x" in the bucket of materials: a plan with an item for each.
LongPlan(n) ==
  [ok |-> TRUE, library_root |-> ProjectDir, root_source |-> "BLEND",
   plan |-> [j \in 1..n |-> PlanItem(DefaultPrefs, j, DatablockPool[1].name, << "a" >>)],
   skipped_linked |-> 0, skipped_external |-> 0]

\* AUTO_CATALOGER_OT_preview.execute on a plan of the length held as input.
PreviewLongPlan ==
  /\ ret.op = "plan"
  /\ PreviewWith(LongPlan(ret.assigned))
  /\ UNCHANGED << prefs, filepath, blocks, fs, drawn, edits, host >>

\* A session as Init has it, or a file whose plan has around fifty items.
InitPreview ==
  \/ Init
  \/ /\ prefs = DefaultPrefs
     /\ filepath = BlendFile
     /\ blocks = InitBlocks
     /\ fs = [r \in Roots |-> [cat |-> NoFile, bak |-> NoFile]]
     /\ state = DefaultRuntime
     /\ drawn = 0
     /\ \E n \in (MaxPlan - 2)..MaxPlan : ret = [NoRet EXCEPT !.op = "plan", !.assigned = n]
     /\ shadow = NoShadow
     /\ edits = 0
     /\ host = << >>

NextPreview ==
  \/ ret.op # "plan" /\ Next
  \/ PreviewLongPlan

\* The coordinator, with previews of long plans beside those of the pool.
SpecPreview == InitPreview /\ [][NextPreview]_vars

\* C30: no preview, finished or cancelled, changes a catalog file, a backup
\* file or a block (its catalog id, its asset marking); a finished preview
\* stores min(50, length of the plan) rows and the full length of the plan as
\* preview_total.
PreviewReadOnly ==
  [][ret'.op = "preview"
       => /\ fs' = fs /\ blocks' = blocks
          /\ ret'.status = "FINISHED"
               => /\ Len(state'.preview_items)
                       = (IF Len(ret'.plan) < 50 THEN Len(ret'.plan) ELSE 50)
                  /\ state'.preview_total = Len(ret'.plan)]_vars

\* A preview of a plan of more than fifty items has finished.
LongPlanPreviewed ==
  /\ ret.op = "preview" /\ ret.status = "FINISHED"
  /\ Len(ret.plan) > 50 /\ Len(state.preview_items) = 50
  /\ state.preview_total = Len(ret.plan)

\* ------------------------------------------------------ post-unwrap-cleaner

\* the loops of the face the edit mesh holds at most
MaxLoops == 3

\* The loops of the one face of the edit mesh, in the order face.loops gives
\* them, and loop.link_loop_next.
FaceLoops == 1..MaxLoops
LinkLoopNext(i) == (i % MaxLoops) + 1

\* One UV unit. Coordinates are whole multiples of it before the operator
\* runs, so that every midpoint the straighten step takes is a whole number.
UvUnit == 2 ^ MaxLoops

\* The UV layouts of the face: a zigzag of nearly vertical edges, the same
\* turned on its side, and a diagonal.
UvLayouts ==
  { [i \in FaceLoops |-> << (i % 2) * UvUnit, 4 * i * UvUnit >>],
    [i \in FaceLoops |-> << 4 * i * UvUnit, (i % 2) * UvUnit >>],
    [i \in FaceLoops |-> << i * UvUnit, i * UvUnit >>] }

\* straighten_threshold in hundredths: the default and the maximum
Thresholds == {35, 100}

Abs(v) == IF v < 0 THEN 0 - v ELSE v

\* _snapshot_uv_selection_state: for each loop of each visible face, the loop,
\* luv.select and luv.select_edge
SnapshotUvSelectionState(bm) ==
  IF bm.hide THEN << >>
  ELSE [i \in FaceLoops |-> << i, i \in bm.select, i \in bm.select_edge >>]

\* A restore that puts back luv.select only.
RestoreSelectOnly(bm, snapshot) ==
  [bm EXCEPT
     !.select = (@ \ {snapshot[k][1] : k \in 1..Len(snapshot)})
                  \cup {snapshot[k][1] : k \in {j \in 1..Len(snapshot) : snapshot[j][2]}}]

\* _restore_uv_selection_state
RestoreUvSelectionState(bm, snapshot) ==
  [bm EXCEPT
     !.select = (@ \ {snapshot[k][1] : k \in 1..Len(snapshot)})
                  \cup {snapshot[k][1] : k \in {j \in 1..Len(snapshot) : snapshot[j][2]}},
     !.select_edge = (@ \ {snapshot[k][1] : k \in 1..Len(snapshot)})
                       \cup {snapshot[k][1] : k \in {j \in 1..Len(snapshot) : snapshot[j][3]}}]

\* the loops of the visible faces, in order
VisibleLoops(bm) == IF bm.hide THEN << >> ELSE [i \in FaceLoops |-> i]

\* The first loop of _prepare_target_selection: the loops it targets.
TargetLoops(bm, target, respect_pins) ==
  SelectSeq(VisibleLoops(bm),
            LAMBDA i : /\ ~(respect_pins /\ i \in bm.pin)
                       /\ ~(target = "SELECTED" /\ i \notin bm.select))

\* _prepare_target_selection: (target_loops, skipped_pins), and the mesh with
\* the loops of the visible faces deselected and the target loops selected
PrepareTargetSelection(bm, target, respect_pins) ==
  [target_loops |-> TargetLoops(bm, target, respect_pins),
   skipped_pins |->
     Len(SelectSeq(VisibleLoops(bm), LAMBDA i : respect_pins /\ i \in bm.pin)),
   bm |-> IF bm.hide THEN bm
          ELSE [bm EXCEPT
                  !.select = {TargetLoops(bm, target, respect_pins)[k] :
                                k \in 1..Len(TargetLoops(bm, target, respect_pins))},
                  !.select_edge = {TargetLoops(bm, target, respect_pins)[k] :
                                     k \in 1..Len(TargetLoops(bm, target, respect_pins))}]]

\* The body of the loop of _straighten_selected_loops for the loop a and the
\* loop b after it, on the coordinates uv: the coordinates it leaves.
StraightenPair(uv, a, b, threshold) ==
  IF uv[a] = uv[b] THEN uv
  ELSE IF Abs(uv[b][1] - uv[a][1]) * 100 <= Abs(uv[b][2] - uv[a][2]) * threshold
    THEN [uv EXCEPT ![a][1] = (uv[a][1] + uv[b][1]) \div 2,
                    ![b][1] = (uv[a][1] + uv[b][1]) \div 2]
  ELSE IF Abs(uv[b][2] - uv[a][2]) * 100 <= Abs(uv[b][1] - uv[a][1]) * threshold
    THEN [uv EXCEPT ![a][2] = (uv[a][2] + uv[b][2]) \div 2,
                    ![b][2] = (uv[a][2] + uv[b][2]) \div 2]
  ELSE uv

\* whether the loop body counts the pair as adjusted: one of its two branches
\* was taken
Adjusts(uv, a, b, threshold) ==
  /\ uv[a] # uv[b]
  /\ \/ Abs(uv[b][1] - uv[a][1]) * 100 <= Abs(uv[b][2] - uv[a][2]) * threshold
     \/ Abs(uv[b][2] - uv[a][2]) * 100 <= Abs(uv[b][1] - uv[a][1]) * threshold

\* _straighten_selected_loops from the k-th loop on: the coordinates and the
\* number of loops adjusted
RECURSIVE StraightenSelectedLoops(_, _, _, _, _)
StraightenSelectedLoops(loops, k, uv, threshold, adjusted) ==
  IF k > Len(loops) THEN [uv |-> uv, adjusted |-> adjusted]
  ELSE StraightenSelectedLoops(
         loops, k + 1, StraightenPair(uv, loops[k], LinkLoopNext(loops[k]), threshold),
         threshold,
         IF Adjusts(uv, loops[k], LinkLoopNext(loops[k]), threshold)
           THEN adjusted + 1 ELSE adjusted)

\* The values of PUC_Settings the operator is run with.
PucSettings ==
  [target : {"SELECTED", "ALL"}, respect_pins : BOOLEAN, straighten_threshold : Thresholds,
   run_straighten : BOOLEAN, run_relax : BOOLEAN, run_pack : BOOLEAN]

\* bpy.ops.uv.minimize_stretch and bpy.ops.uv.pack_islands work on the
\* selected UVs; what they compute is not part of this source. Here the first
\* moves each selected loop that is not pinned one unit along x, the second
\* moves each selected loop one unit along y.
MinimizeStretch(bm) ==
  [bm EXCEPT !.uv = [i \in FaceLoops |->
                       IF i \in bm.select \ bm.pin /\ ~bm.hide
                         THEN << bm.uv[i][1] + UvUnit, bm.uv[i][2] >> ELSE bm.uv[i]]]
PackIslands(bm) ==
  [bm EXCEPT !.uv = [i \in FaceLoops |->
                       IF i \in bm.select /\ ~bm.hide
                         THEN << bm.uv[i][1], bm.uv[i][2] + UvUnit >> ELSE bm.uv[i]]]

\* the UV steps that can raise RuntimeError with these settings ("": none does)
Failures(settings) ==
  {""} \cup (IF settings.run_relax THEN {"relax"} ELSE {})
       \cup (IF settings.run_pack THEN {"pack"} ELSE {})

\* what the operator reports: the mesh as it found it, whether the snapshot
\* was taken, and the coordinates as the straighten step left them
CleanRet(status, msg, settings, snapshot_taken, straightened, changed) ==
  [op |-> "clean", status |-> status, msg |-> msg, settings |-> settings,
   before |-> host, snapshot_taken |-> snapshot_taken, straightened |-> straightened,
   changed |-> changed]

\* Lines 212-253 of PUC_OT_one_click_clean.execute: the steps on the mesh bm
\* with the target loops selected, s what the straighten step left, fail the
\* step that raises.
CleanSteps(settings, bm, snapshot, s, fail) ==
  IF fail = "relax"
    THEN /\ host' = RestoreUvSelectionState([bm EXCEPT !.uv = s.uv], snapshot)
         /\ ret' = CleanRet("CANCELLED", "failed", settings, TRUE, s.uv, s.adjusted)
  ELSE IF fail = "pack"
    THEN /\ host' = RestoreUvSelectionState(
                      IF settings.run_relax THEN MinimizeStretch([bm EXCEPT !.uv = s.uv])
                      ELSE [bm EXCEPT !.uv = s.uv],
                      snapshot)
         /\ ret' = CleanRet("CANCELLED", "failed", settings, TRUE, s.uv, s.adjusted)
  ELSE /\ host' = RestoreUvSelectionState(
                    (IF settings.run_pack THEN PackIslands(
                       IF settings.run_relax THEN MinimizeStretch([bm EXCEPT !.uv = s.uv])
                       ELSE [bm EXCEPT !.uv = s.uv])
                     ELSE IF settings.run_relax THEN MinimizeStretch([bm EXCEPT !.uv = s.uv])
                     ELSE [bm EXCEPT !.uv = s.uv]),
                    snapshot)
       /\ ret' = CleanRet("FINISHED", "", settings, TRUE, s.uv, s.adjusted)

\* Lines 186-253 of PUC_OT_one_click_clean.execute: snapshot is what
\* _snapshot_uv_selection_state returned, p what _prepare_target_selection did.
CleanWith(settings, snapshot, p) ==
  IF p.target_loops = << >>
    THEN /\ host' = RestoreUvSelectionState(p.bm, snapshot)
         /\ ret' = CleanRet("CANCELLED", "no_uvs", settings, TRUE, host.uv, 0)
  ELSE \E region \in BOOLEAN :
         IF ~region
           THEN /\ host' = RestoreUvSelectionState(p.bm, snapshot)
                /\ ret' = CleanRet("CANCELLED", "region", settings, TRUE, host.uv, 0)
         ELSE \E fail \in Failures(settings) :
                CleanSteps(settings, p.bm, snapshot,
                           IF settings.run_straighten
                             THEN StraightenSelectedLoops(p.target_loops, 1, p.bm.uv,
                                                          settings.straighten_threshold, 0)
                           ELSE [uv |-> p.bm.uv, adjusted |-> 0],
                           fail)

\* PUC_OT_one_click_clean.execute, run in the context ctx: on a mesh in edit
\* mode, with no edit mesh, or with several objects in edit mode
OneClickClean ==
  /\ ret.op = "mesh"
  /\ \E settings \in PucSettings : \E ctx \in {"MESH", "NONE", "MULTI"} :
       IF ctx = "NONE"
         THEN /\ ret' = CleanRet("CANCELLED", "object", settings, FALSE, host.uv, 0)
              /\ host' = host
       ELSE IF ~(settings.run_straighten \/ settings.run_relax \/ settings.run_pack)
         THEN /\ ret' = CleanRet("CANCELLED", "steps", settings, FALSE, host.uv, 0)
              /\ host' = host
       ELSE IF ctx = "MULTI"
         THEN /\ ret' = CleanRet("CANCELLED", "multi", settings, FALSE, host.uv, 0)
              /\ host' = host
       ELSE CleanWith(settings, SnapshotUvSelectionState(host),
                      PrepareTargetSelection(host, settings.target, settings.respect_pins))
  /\ UNCHANGED << prefs, filepath, blocks, fs, state, drawn, shadow, edits >>

\* The edit mesh before the operator runs: one face, hidden or not, in one of
\* the layouts, with any loops pinned, any loops selected, and the edge flag
\* set on no loop, on every loop or on the first.
InitClean ==
  /\ prefs = DefaultPrefs
  /\ filepath = BlendFile
  /\ blocks = InitBlocks
  /\ fs = [r \in Roots |-> [cat |-> NoFile, bak |-> NoFile]]
  /\ state = DefaultRuntime
  /\ drawn = 0
  /\ ret = [op |-> "mesh"]
  /\ shadow = NoShadow
  /\ edits = 0
  /\ \E hide \in BOOLEAN, uv \in UvLayouts, pin \in SUBSET FaceLoops,
        select \in SUBSET FaceLoops, select_edge \in {{}, {1}, FaceLoops} :
       host = [hide |-> hide, uv |-> uv, pin |-> pin, select |-> select,
               select_edge |-> select_edge]

\* One-Click Clean on every such mesh.
SpecClean == InitClean /\ [][OneClickClean]_vars

\* C22: on every exit of One-Click Clean after the selection snapshot is
\* taken, every loop of every visible face has the select and select_edge
\* flags it had before the operator ran.
UvSelectionRestored ==
  (ret.op = "clean" /\ ret.snapshot_taken /\ ~host.hide)
    => /\ host.select = ret.before.select
       /\ host.select_edge = ret.before.select_edge

\* The operator finished on a mesh whose selection was not the target
\* selection: a pinned loop was selected, and the edge flags differed.
CleanFinishedOnMixedSelection ==
  /\ ret.op = "clean" /\ ret.status = "FINISHED" /\ ret.settings.respect_pins
  /\ ~host.hide
  /\ ret.before.select \cap ret.before.pin # {}
  /\ ret.before.select_edge # ret.before.select
  /\ host.uv # ret.before.uv

\* C23: with respect_pins on, the straighten step of One-Click Clean leaves
\* the UV coordinates of every pinned loop as they were.
StraightenLeavesPinned ==
  (ret.op = "clean" /\ ret.snapshot_taken /\ ret.settings.respect_pins
     /\ ret.settings.run_straighten)
    => \A i \in ret.before.pin : ret.straightened[i] = ret.before.uv[i]

\* ---------------------------------------------------------------------------
\* Asset bulk manager: duplicate data-blocks (src/smh_asset_bulk_manager.py)
\* ---------------------------------------------------------------------------

\* the most data-blocks in the collection, and the most users of one of them
MaxBlocks == 3
MaxUsers == 1

\* The names the data-blocks of the collection take, in the order the host
\* keeps the collection in.  "A.01" carries no three-digit suffix.
NamePool ==
  << << "A" >>, << "A", ".", "0", "0", "1" >>, << "A", ".", "0", "0", "2" >>,
     << "A", ".", "0", "1" >>,
     << "B", ".", "0", "0", "1" >>, << "B", ".", "0", "0", "2" >> >>

\* _base_name: re.sub(r"\.\d{3}$", "", name)
BaseName(name) ==
  IF /\ Len(name) >= 4
     /\ name[Len(name) - 3] = "."
     /\ \A k \in (Len(name) - 2)..Len(name) : name[k] \in DigitChars
    THEN SubSeq(name, 1, Len(name) - 4)
    ELSE name

BlocksOf(datablocks) == {datablocks[i] : i \in DOMAIN datablocks}

\* _duplicate_groups: the data-blocks of each base name that more than one
\* data-block has, in the order of the collection
DuplicateGroups(collection) ==
  LET bases == {BaseName(d.name) : d \in BlocksOf(collection)}
      InGroup(b, d) == BaseName(d.name) = b
  IN [b \in {b \in bases : Cardinality({d \in BlocksOf(collection) : InGroup(b, d)}) > 1}
        |-> SelectSeq(collection, LAMBDA d : InGroup(b, d))]

\* the data-block a mutation of _choose_keeper takes: the first of the group
ChooseFirst(base_name, datablocks) == datablocks[1]

\* _choose_keeper: the first data-block named as the base; without one, the
\* first in sorted(key=(users, -len(name)), reverse=True), a stable sort
ChooseKeeper(base_name, datablocks) ==
  LET exact == SelectSeq(datablocks, LAMBDA item : item.name = base_name)
      KeyLess(x, y) ==
        \/ x.users < y.users
        \/ x.users = y.users /\ (0 - Len(x.name)) < (0 - Len(y.name))
      best == {i \in DOMAIN datablocks :
                 \A j \in DOMAIN datablocks : ~KeyLess(datablocks[i], datablocks[j])}
  IN IF exact # << >> THEN exact[1]
     ELSE datablocks[CHOOSE i \in best : \A j \in best : i <= j]

\* keeper of each group
Keepers(groups) == [b \in DOMAIN groups |-> ChooseKeeper(b, groups[b])]

\* the data-blocks of the groups that are not the keeper of their group
NonKeepers(groups, keeper) ==
  {d \in UNION {BlocksOf(groups[b]) : b \in DOMAIN groups} : d # keeper[BaseName(d.name)]}

\* The rows of SMH_OT_find_duplicates.execute, one for each base name in
\* sorted order, and its count
FindWith(groups, keeper, bases) ==
  /\ host' = [host EXCEPT
        !.duplicate_items =
           [r \in 1..Len(bases) |->
              [base_name |-> bases[r],
               keeper_name |-> keeper[bases[r]].name,
               duplicate_names |->
                  Join([j \in 1..(Len(groups[bases[r]]) - 1) |->
                          SelectSeq(groups[bases[r]],
                                    LAMBDA d : d # keeper[bases[r]])[j].name],
                       << ",", " " >>)]],
        !.last_duplicate_groups = Cardinality(DOMAIN groups)]
  /\ ret' = [op |-> "find", status |-> "FINISHED", groups |-> groups,
             keeper |-> keeper, replaced |-> 0, failed |-> 0,
             before |-> host.blocks]

\* SMH_OT_find_duplicates.execute
FindDuplicates ==
  /\ ret.op \in {"data", "find", "replace"}
  /\ \E groups \in {DuplicateGroups(host.blocks)} :
     \E keeper \in {Keepers(groups)} :
       FindWith(groups, keeper, Sorted(DOMAIN groups))
  /\ UNCHANGED << prefs, filepath, blocks, fs, state, drawn, shadow, edits >>

\* The collection and the counts after the loop of
\* SMH_OT_replace_all_duplicates.execute has remapped the data-blocks in
\* remapped and removed those in removed.  A remapped data-block hands its
\* users to the keeper of its group; the groups share no data-block, so the
\* order they are taken in does not matter.
ReplaceOutcome(collection, keeper, olds, remapped, removed) ==
  LET RECURSIVE UsersOf(_)
      UsersOf(S) == IF S = {} THEN 0
                    ELSE LET d == CHOOSE d \in S : TRUE IN d.users + UsersOf(S \ {d})
      After(d) ==
        IF d \in remapped THEN [d EXCEPT !.users = 0]
        ELSE IF d \in {keeper[b] : b \in DOMAIN keeper}
          THEN [d EXCEPT !.users =
                  d.users + UsersOf({o \in remapped : keeper[BaseName(o.name)] = d})]
        ELSE d
  IN [blocks |-> [d \in BlocksOf(collection) \ removed |-> After(d)],
      replaced |-> Cardinality(removed),
      failed |-> Cardinality(olds \ removed)]

\* The loop of SMH_OT_replace_all_duplicates.execute over the non-keepers
\* olds: user_remap raises for the data-blocks named in remap_raises, and
\* _remove_datablock returns False for those named in remove_fails.
ReplaceLoop(collection, keeper, olds, remap_raises, remove_fails) ==
  ReplaceOutcome(collection, keeper, olds,
                 {d \in olds : d.name \notin remap_raises},
                 {d \in olds : d.name \notin remap_raises \cup remove_fails})

ReplaceWith(groups, keeper, olds) ==
  IF DOMAIN groups = {}
    THEN /\ host' = [host EXCEPT !.last_replaced_assets = 0]
         /\ ret' = [op |-> "replace", status |-> "CANCELLED", groups |-> groups,
                    keeper |-> keeper, replaced |-> 0, failed |-> 0,
                    before |-> host.blocks]
    ELSE \E remap_raises \in SUBSET {d.name : d \in olds} :
         \E remove_fails \in SUBSET ({d.name : d \in olds} \ remap_raises) :
         \E done \in {ReplaceLoop(host.blocks, keeper, olds, remap_raises, remove_fails)} :
           /\ host' = [host EXCEPT
                 !.blocks =
                    LET kept == SelectSeq(host.blocks, LAMBDA d : d \in DOMAIN done.blocks)
                    IN [i \in DOMAIN kept |-> done.blocks[kept[i]]],
                 !.last_replaced_assets = done.replaced]
           /\ ret' = [op |-> "replace", status |-> "FINISHED",
                      groups |-> groups, keeper |-> keeper,
                      replaced |-> done.replaced, failed |-> done.failed,
                      before |-> host.blocks]

\* SMH_OT_replace_all_duplicates.execute
ReplaceAllDuplicates ==
  /\ ret.op \in {"data", "find", "replace"}
  /\ \E groups \in {DuplicateGroups(host.blocks)} :
     \E keeper \in {Keepers(groups)} :
       ReplaceWith(groups, keeper, NonKeepers(groups, keeper))
  /\ UNCHANGED << prefs, filepath, blocks, fs, state, drawn, shadow, edits >>

\* The collection of the chosen type before an operator runs: at most
\* MaxBlocks data-blocks with names of the pool, each with 0..MaxUsers users.
InitDuplicates ==
  /\ prefs = DefaultPrefs
  /\ filepath = BlendFile
  /\ blocks = InitBlocks
  /\ fs = [r \in Roots |-> [cat |-> NoFile, bak |-> NoFile]]
  /\ state = DefaultRuntime
  /\ drawn = 0
  /\ ret = [op |-> "data"]
  /\ shadow = NoShadow
  /\ edits = 0
  /\ \E P \in {P \in SUBSET (1..Len(NamePool)) : Cardinality(P) <= MaxBlocks} :
     \E users \in [P -> 0..MaxUsers] :
       host = [blocks |-> [j \in 1..Cardinality(P) |->
                             [name |-> NamePool[Ascending(P)[j]],
                              users |-> users[Ascending(P)[j]]]],
               duplicate_items |-> << >>,
               last_duplicate_groups |-> 0,
               last_replaced_assets |-> 0]

SpecDuplicates == InitDuplicates /\ [][FindDuplicates \/ ReplaceAllDuplicates]_vars

\* C24: Replace All Duplicates puts every data-block in at most one group,
\* chooses in each group one keeper (the block named as the base if there is
\* one, otherwise one with the most users and, among those, the shortest
\* name) and keeps it in the collection; replaced + failed is the number of
\* non-keeper blocks; and after a run in which nothing failed, Find
\* Duplicates reports zero groups.
ReplaceKeepsOneKeeper ==
  [][/\ ret'.op = "replace"
          => /\ \A d \in BlocksOf(ret'.before) :
                  Cardinality({b \in DOMAIN ret'.groups : d \in BlocksOf(ret'.groups[b])}) <= 1
             /\ \A b \in DOMAIN ret'.groups :
                  /\ ret'.keeper[b] \in BlocksOf(ret'.groups[b])
                  /\ IF \E d \in BlocksOf(ret'.groups[b]) : d.name = b
                       THEN ret'.keeper[b].name = b
                       ELSE \A d \in BlocksOf(ret'.groups[b]) :
                              /\ d.users <= ret'.keeper[b].users
                              /\ d.users = ret'.keeper[b].users
                                   => Len(ret'.keeper[b].name) <= Len(d.name)
                  /\ \E d \in BlocksOf(host'.blocks) : d.name = ret'.keeper[b].name
             /\ ret'.replaced + ret'.failed
                  = Cardinality(NonKeepers(ret'.groups, ret'.keeper))
             /\ ret'.status = "CANCELLED" => host'.blocks = host.blocks
     /\ (ret.op = "replace" /\ ret.status = "FINISHED" /\ ret.failed = 0
           /\ ret'.op = "find")
          => /\ host'.last_duplicate_groups = 0
             /\ host'.duplicate_items = << >>]_vars

\* Find Duplicates reports nothing after a run that replaced a block and kept
\* one with a numbered name for its users.
FoundNoneAfterReplace ==
  /\ ret.op = "find"
  /\ host.last_duplicate_groups = 0
  /\ host.last_replaced_assets >= 1
  /\ \E d \in BlocksOf(host.blocks) : BaseName(d.name) # d.name /\ d.users > 0

\* ---------------------------------------------------------------------------
\* Smart Curve Helper (src/projects/smart-curve-helper/smart_curve_helper.py)
\* ---------------------------------------------------------------------------

\* the most Bezier points of the curve
MaxPoints == 2

\* Coordinates are whole numbers of a unit in which the length 0.0001 that
\* Align Handles gives a handle of length zero is 1, and the coordinates the
\* curve starts with are multiples of CoUnit, which every count of averaged
\* values divides (at most three vectors for each point).
TinyLength == 1
RECURSIVE Factorial(_)
Factorial(n) == IF n <= 1 THEN 1 ELSE n * Factorial(n - 1)
CoUnit == Factorial(3 * MaxPoints)

\* mathutils.Vector: +, -, * by a number, dot, lerp, length, normalized.
\* The differences the operators measure lie along one axis, where the
\* length is the size of that component.
VecAdd(a, b) == [i \in 1..3 |-> a[i] + b[i]]
VecSub(a, b) == [i \in 1..3 |-> a[i] - b[i]]
VecMul(a, k) == [i \in 1..3 |-> a[i] * k]
VecDot(a, b) == a[1] * b[1] + a[2] * b[2] + a[3] * b[3]
VecLerp(a, b, factor) == VecAdd(a, VecMul(VecSub(b, a), factor))
VecLength(a) == Abs(a[1]) + Abs(a[2]) + Abs(a[3])
VecNormalized(a) == [i \in 1..3 |-> a[i] \div VecLength(a)]

RECURSIVE SeqSum(_)
SeqSum(s) == IF s = << >> THEN 0 ELSE Head(s) + SeqSum(Tail(s))

\* _axis_local_vector, for an object whose matrix_world is the identity and a
\* view that looks down the local Z axis; << >> is None, returned when the
\* axis needs the view and there is no 3D View region
AxisLocalVector(region, axis, axis_space) ==
  IF axis = "VIEW" THEN (IF region THEN << 0, 0, -1 >> ELSE << >>)
  ELSE IF axis_space \in {"LOCAL", "WORLD"}
    THEN (CASE axis = "X" -> << 1, 0, 0 >> [] axis = "Y" -> << 0, 1, 0 >>
            [] OTHER -> << 0, 0, 1 >>)
  ELSE IF ~region THEN << >>
  ELSE (CASE axis = "X" -> << 1, 0, 0 >> [] axis = "Y" -> << 0, 1, 0 >>
          [] OTHER -> << 0, 0, -1 >>)

Selected(point) ==
  point.select_control_point \/ point.select_left_handle \/ point.select_right_handle

\* the points a mutation of _iter_target_points yields: every Bezier point
IterAllPoints(splines, target) ==
  Concat([s \in DOMAIN splines |->
            IF splines[s].type # "BEZIER" THEN << >>
            ELSE [j \in DOMAIN splines[s].bezier_points |-> << s, j >>]])

\* _iter_target_points: the places << spline, index >> of the points yielded
IterTargetPoints(splines, target) ==
  Concat([s \in DOMAIN splines |->
            IF splines[s].type # "BEZIER" THEN << >>
            ELSE LET keep == {j \in DOMAIN splines[s].bezier_points :
                                target = "SELECTED_ONLY"
                                  => Selected(splines[s].bezier_points[j])}
                 IN [k \in 1..Cardinality(keep) |-> << s, Ascending(keep)[k] >>]])

PointAt(splines, place) == splines[place[1]].bezier_points[place[2]]

\* _active_point_or_first
ActivePointOrFirst(splines, points) ==
  LET active == SelectSeq(points, LAMBDA p : PointAt(splines, p).select_control_point)
  IN PointAt(splines, IF active # << >> THEN active[1] ELSE points[1])

\* _flatten_vector
FlattenVector(value, axis_vec, target_dot, strength) ==
  VecAdd(value, VecMul(axis_vec, (target_dot - VecDot(value, axis_vec)) * strength))

\* _flatten_target_dot; the world origin is the local origin
FlattenTargetDot(splines, points, axis_vec, flatten_reference, cursor) ==
  IF flatten_reference = "AVERAGE"
    THEN SeqSum(Concat([k \in DOMAIN points |->
                          << VecDot(PointAt(splines, points[k]).co, axis_vec),
                             VecDot(PointAt(splines, points[k]).handle_left, axis_vec),
                             VecDot(PointAt(splines, points[k]).handle_right, axis_vec) >>]))
           \div (3 * Len(points))
  ELSE IF flatten_reference = "ACTIVE_POINT"
    THEN VecDot(ActivePointOrFirst(splines, points).co, axis_vec)
  ELSE IF flatten_reference = "WORLD_ORIGIN" THEN VecDot(<< 0, 0, 0 >>, axis_vec)
  ELSE VecDot(cursor, axis_vec)

\* _set_handle_type
SetHandleType(point, handle_type) ==
  [point EXCEPT !.handle_left_type = handle_type, !.handle_right_type = handle_type]

\* one handle of a point in the loop of SCH_OT_align_handles.execute
AlignHandle(co, handle, axis_vec, sign_hint, strength) ==
  LET vec == VecSub(handle, co)
      length == IF VecLength(vec) = 0 THEN TinyLength ELSE VecLength(vec)
      sign == IF VecLength(vec) = 0 THEN sign_hint
              ELSE IF VecDot(vec, axis_vec) >= 0 THEN 1 ELSE -1
  IN VecLerp(handle, VecAdd(co, VecMul(axis_vec, length * sign)), strength)

\* one handle of a point in the second loop of SCH_OT_equalize_length.execute
EqualizeHandle(co, handle, axis_vec, sign_hint, target_len, strength) ==
  LET vec == VecSub(handle, co)
      direction == IF VecLength(vec) > 0 THEN VecNormalized(vec)
                   ELSE VecMul(axis_vec, sign_hint)
  IN VecLerp(handle, VecAdd(co, VecMul(direction, target_len)), strength)

\* both handles of a point in the loop of SCH_OT_align_handles.execute
AlignPoint(point, axis_vec, strength) ==
  [point EXCEPT
     !.handle_left = AlignHandle(point.co, @, axis_vec, -1, strength),
     !.handle_right = AlignHandle(point.co, @, axis_vec, 1, strength)]

\* both handles of a point in the second loop of SCH_OT_equalize_length.execute
EqualizePoint(point, axis_vec, target_len, strength) ==
  [point EXCEPT
     !.handle_left = EqualizeHandle(point.co, @, axis_vec, -1, target_len, strength),
     !.handle_right = EqualizeHandle(point.co, @, axis_vec, 1, target_len, strength)]

\* the handle lengths of the target points that are not zero
NonZeroLengths(splines, points) ==
  SelectSeq(Concat([k \in DOMAIN points |->
                      << VecLength(VecSub(PointAt(splines, points[k]).handle_left,
                                          PointAt(splines, points[k]).co)),
                         VecLength(VecSub(PointAt(splines, points[k]).handle_right,
                                          PointAt(splines, points[k]).co)) >>]),
            LAMBDA value : value > 0)

\* SCH_Settings, with two of the handle types and strengths 1.0 and 2.0
SchSettings ==
  [axis : {"X", "Y", "Z", "VIEW"}, axis_space : {"LOCAL", "WORLD", "VIEW"},
   handle_type : {"VECTOR", "FREE"}, strength : {1, 2},
   target : {"SELECTED_ONLY", "ALL_IN_OBJECT"},
   flatten_reference : {"AVERAGE", "ACTIVE_POINT", "WORLD_ORIGIN", "CURSOR_3D"}]

\* what a cancelled operator of the add-on leaves: the curve as it was
CurveCancelled(op, msg, settings) ==
  /\ host' = host
  /\ ret' = [op |-> op, status |-> "CANCELLED", msg |-> msg, settings |-> settings,
             before |-> host.splines]

\* what a finished operator leaves: the k-th target point becomes changed[k]
\* with the handle type of the settings, and the other points stay
CurveFinished(op, settings, points, changed) ==
  /\ host' = [host EXCEPT !.splines =
        [s \in DOMAIN host.splines |->
           [host.splines[s] EXCEPT !.bezier_points =
              [j \in DOMAIN host.splines[s].bezier_points |->
                 IF \E k \in DOMAIN points : points[k] = << s, j >>
                   THEN SetHandleType(
                          changed[CHOOSE k \in DOMAIN points : points[k] = << s, j >>],
                          settings.handle_type)
                   ELSE host.splines[s].bezier_points[j]]]]]
  /\ ret' = [op |-> op, status |-> "FINISHED", msg |-> "", settings |-> settings,
             before |-> host.splines]

\* SCH_OT_align_handles.execute after the three checks
AlignWith(settings, axis_vec, points) ==
  CurveFinished("align", settings, points,
    [k \in DOMAIN points |->
       AlignPoint(PointAt(host.splines, points[k]), axis_vec, settings.strength)])

\* SCH_OT_flatten.execute after the three checks
FlattenWith(settings, axis_vec, points, target_dot) ==
  CurveFinished("flatten", settings, points,
    [k \in DOMAIN points |->
       [PointAt(host.splines, points[k]) EXCEPT
          !.co = FlattenVector(@, axis_vec, target_dot, settings.strength),
          !.handle_left = FlattenVector(@, axis_vec, target_dot, settings.strength),
          !.handle_right = FlattenVector(@, axis_vec, target_dot, settings.strength)]])

\* SCH_OT_equalize_length.execute after the three checks
EqualizeWith(settings, axis_vec, points, non_zero) ==
  IF non_zero = << >> THEN CurveCancelled("equalize", "lengths", settings)
  ELSE \E target_len \in {SeqSum(non_zero) \div Len(non_zero)} :
         CurveFinished("equalize", settings, points,
           [k \in DOMAIN points |->
              EqualizePoint(PointAt(host.splines, points[k]), axis_vec, target_len,
                            settings.strength)])

\* The checks the three operators begin with: curve edit mode, an axis and
\* target points; the message of the check that fails, "" when none does
CurveCheck(axis_vec, points) ==
  IF host.mode # "EDIT_CURVE" THEN "edit_mode"
  ELSE IF axis_vec = << >> THEN "view_axis"
  ELSE IF points = << >> THEN "no_bezier"
  ELSE ""

\* SCH_OT_align_handles.execute
AlignHandles ==
  /\ ret.op = "curve"
  /\ \E settings \in SchSettings :
     \E axis_vec \in {AxisLocalVector(host.region, settings.axis, settings.axis_space)} :
     \E points \in {IterTargetPoints(host.splines, settings.target)} :
       IF CurveCheck(axis_vec, points) # ""
         THEN CurveCancelled("align", CurveCheck(axis_vec, points), settings)
         ELSE AlignWith(settings, axis_vec, points)
  /\ UNCHANGED << prefs, filepath, blocks, fs, state, drawn, shadow, edits >>

\* SCH_OT_flatten.execute
Flatten ==
  /\ ret.op = "curve"
  /\ \E settings \in SchSettings :
     \E axis_vec \in {AxisLocalVector(host.region, settings.axis, settings.axis_space)} :
     \E points \in {IterTargetPoints(host.splines, settings.target)} :
       IF CurveCheck(axis_vec, points) # ""
         THEN CurveCancelled("flatten", CurveCheck(axis_vec, points), settings)
         ELSE FlattenWith(settings, axis_vec, points,
                          FlattenTargetDot(host.splines, points, axis_vec,
                                           settings.flatten_reference, host.cursor))
  /\ UNCHANGED << prefs, filepath, blocks, fs, state, drawn, shadow, edits >>

\* SCH_OT_equalize_length.execute
EqualizeLength ==
  /\ ret.op = "curve"
  /\ \E settings \in SchSettings :
     \E axis_vec \in {AxisLocalVector(host.region, settings.axis, settings.axis_space)} :
     \E points \in {IterTargetPoints(host.splines, settings.target)} :
       IF CurveCheck(axis_vec, points) # ""
         THEN CurveCancelled("equalize", CurveCheck(axis_vec, points), settings)
         ELSE EqualizeWith(settings, axis_vec, points,
                           NonZeroLengths(host.splines, points))
  /\ UNCHANGED << prefs, filepath, blocks, fs, state, drawn, shadow, edits >>

\* The Bezier points the curve can start with: point j at j units along every
\* axis, its handles one unit to the left and two units up or both on the
\* point, handle type AUTO, and nothing, the control point or only the right
\* handle selected.
BezierPoints(j) ==
  {[co |-> << j * CoUnit, j * CoUnit, j * CoUnit >>,
    handle_left |-> << j * CoUnit - left, j * CoUnit, j * CoUnit >>,
    handle_right |-> << j * CoUnit, j * CoUnit + 2 * left, j * CoUnit >>,
    handle_left_type |-> "AUTO", handle_right_type |-> "AUTO",
    select_control_point |-> sel = "point",
    select_left_handle |-> FALSE,
    select_right_handle |-> sel = "right"] :
     left \in {0, CoUnit}, sel \in {"none", "point", "right"}}

\* The active object before an operator runs: a curve with a Bezier spline of
\* 1..MaxPoints points and a NURBS spline, in curve edit mode or not, with or
\* without a 3D View region, and the 3D cursor two units up the Z axis.
InitCurve ==
  /\ prefs = DefaultPrefs
  /\ filepath = BlendFile
  /\ blocks = InitBlocks
  /\ fs = [r \in Roots |-> [cat |-> NoFile, bak |-> NoFile]]
  /\ state = DefaultRuntime
  /\ drawn = 0
  /\ ret = [op |-> "curve"]
  /\ shadow = NoShadow
  /\ edits = 0
  /\ \E n \in 1..MaxPoints, mode \in {"EDIT_CURVE", "OBJECT"}, region \in BOOLEAN :
     \E bezier_points \in [1..n -> UNION {BezierPoints(j) : j \in 1..n}] :
       /\ \A j \in 1..n : bezier_points[j] \in BezierPoints(j)
       /\ host = [mode |-> mode, region |-> region,
                  cursor |-> << 0, 0, 2 * CoUnit >>,
                  splines |-> << [type |-> "BEZIER", bezier_points |-> bezier_points,
                                  points |-> << >>],
                                 [type |-> "NURBS", bezier_points |-> << >>,
                                  points |-> << [co |-> << CoUnit, 0, 0 >>,
                                                 select |-> TRUE] >>] >>]

SpecCurve == InitCurve /\ [][AlignHandles \/ Flatten \/ EqualizeLength]_vars

====
